---- MODULE Spec2Model ----
(***************************************************************************)
(* Model of the presentation control helper: the WebSocket protocol server *)
(* (WebSocketServer), the session manager (PresentationManager), the file  *)
(* registry (FileManager) and the two AppleScript drivers.                 *)
(*                                                                         *)
(* Scheduling.  The program runs on the Node.js event loop.  An async      *)
(* handler runs synchronously up to its next await and is then suspended.  *)
(* The drivers run their scripts with execSync, so a driver call blocks    *)
(* and has taken effect when it returns; the await that follows it is      *)
(* resumed from the microtask queue.  Only fs.stat / fs.readdir /          *)
(* watcher.close are real I/O.  Event callbacks (a socket's data, a close, *)
(* a timer, a menu click, an I/O completion) start only when the microtask *)
(* queue is empty; the frames of one data chunk of one socket are emitted  *)
(* back to back, each handler running to its first await before the next   *)
(* message of that chunk is emitted.  The order in which suspended         *)
(* handlers are resumed from the microtask queue is left open.             *)
(***************************************************************************)
EXTENDS Integers, Sequences, FiniteSets, TLC

\* ---------------------------------------------------------------- bounds
MaxConns == 2
MaxTokens == 2
MaxMsgs == 4
MaxHandlers == 2
MaxSlides == 2

Conns == 1..MaxConns
Tokens == 1..MaxTokens
Handlers == 1..MaxHandlers

\* ------------------------------------------------------------ file system
\* The folder the user has selected and what lies in it; a path that is not
\* on disk stands for a stale or mistyped path of a client.
Folder == "/f"
NoFolder == "null"
OnDisk == {"a.key", "b.pptx", "n.txt"}
Paths == OnDisk \cup {"gone.key"}
NoFile == "null"

\* a second folder, and the names an entry of a folder can have: D.KEY has an
\* upper-case extension and sub.key is a directory
Other == "/g"
Folders == {Folder, Other}
Names == {"a.key", "b.pptx", "c.ppt", "D.KEY", "sub.key", "n.txt"}

\* path.extname(name)
pathExtname(p) ==
  CASE p \in {"a.key", "gone.key", "sub.key"} -> ".key"
    [] p = "b.pptx" -> ".pptx"
    [] p = "c.ppt" -> ".ppt"
    [] p = "D.KEY" -> ".KEY"
    [] p = "n.txt" -> ".txt"

\* String.toLowerCase on an extension
toLowerCase(e) == IF e = ".KEY" THEN ".key" ELSE e

\* path.extname(name).toLowerCase()
extname(p) == toLowerCase(pathExtname(p))

\* String.localeCompare on the names, as a rank: letters compare without
\* regard to case, so D.KEY comes after c.ppt
NameRank(p) ==
  CASE p = "a.key" -> 1
    [] p = "b.pptx" -> 2
    [] p = "c.ppt" -> 3
    [] p = "D.KEY" -> 4
    [] p = "gone.key" -> 5
    [] p = "n.txt" -> 6
    [] p = "sub.key" -> 7

supportedExtensions == {".key", ".pptx", ".ppt"}

getFileType(ext) ==
  CASE ext = ".key" -> "keynote"
    [] ext \in {".pptx", ".ppt"} -> "powerpoint"
    [] OTHER -> "unknown"

RECURSIVE SortByName(_)
SortByName(S) ==
  IF S = {} THEN <<>>
  ELSE LET first == CHOOSE p \in S : \A q \in S : NameRank(p) <= NameRank(q)
       IN <<first>> \o SortByName(S \ {first})

\* FileManager.scanFiles: the matching entries of the folder, sorted by name
ScanResult(folder) ==
  IF folder = NoFolder THEN <<>>
  ELSE SortByName({p \in OnDisk : extname(p) \in supportedExtensions})

\* FileManager.validateFile: fs.stat(path).isFile()
validateFile(p) == p \in OnDisk

\* Array.findIndex, 0-based, -1 when absent
findIndex(files, p) ==
  IF \E i \in 1..Len(files) : files[i] = p
  THEN (CHOOSE i \in 1..Len(files) : files[i] = p) - 1
  ELSE -1

\* ------------------------------------------------------------------ state
VARIABLES
  clients,      \* WebSocketServer.clients: per connection id, in the map? authenticated?
  readyState,   \* ws.readyState of each connection's socket
  authToken,    \* WebSocketServer.authToken
  pm,           \* PresentationManager fields (the session)
  fm,           \* FileManager fields (the registry)
  app,          \* the target applications: 0 no document, k document at slide k
  handlers,     \* the in-flight ws 'message' handlers, each suspended at an await,
                \* in the order their messages arrived (1 is the oldest)
  sent,         \* what the last step wrote to each connection's socket
  calls,        \* the driver operations the last step invoked
  chunk,        \* the connection whose data chunk is being emitted, 0 if none
  nmsgs,        \* messages received so far
  selection,    \* PresentationControlApp.selectedFolder and the position of the
                \* fileManager.setFolder call that selectFolder is waiting for
  disk,         \* the entries of each folder
  fsChanges,    \* how many times the folders' contents have been changed
  scans,        \* the scanFiles calls in flight, oldest first
  watch,        \* the chokidar watcher: is it emitting, and the events it has
                \* detected and not emitted yet
  walk          \* a series of nextFile calls: the cursor it started from and
                \* the number of calls made

registryVars == <<disk, fsChanges, scans, watch, walk>>

vars == <<clients, readyState, authToken, pm, fm, app, handlers,
          sent, calls, chunk, nmsgs, selection, registryVars>>

NoDriver == "null"
Drivers == {"keynote", "powerpoint"}
NoNotes == <<>>
NoInfo == [currentSlide |-> 0, totalSlides |-> 0]
NoSnap == [type |-> "none"]

EmptySession ==
  [currentDriver |-> NoDriver, currentFile |-> NoFile, isPresenting |-> FALSE,
   currentSlideIndex |-> 0, totalSlides |-> 0, slideNotes |-> NoNotes]

Idle ==
  [pc |-> "idle", conn |-> 0, type |-> "none", path |-> NoFile, ok |-> FALSE,
   err |-> "", driver |-> NoDriver, info |-> NoInfo, notes |-> NoNotes,
   files |-> <<>>, cf |-> NoFile, idx |-> -1, count |-> 0, snap |-> NoSnap]

NoSent == [c \in Conns |-> <<>>]
NoWatch == [live |-> FALSE, pending |-> <<>>]
NoWalk == [from |-> -1, steps |-> 0]

\* the folder holds what OnDisk says and stays as it is, no scan of the
\* detailed registry model (below) is running and the watcher is silent
QuietRegistry ==
  /\ disk = [f \in Folders |-> IF f = Folder THEN OnDisk ELSE {}]
  /\ fsChanges = 0
  /\ scans = <<>>
  /\ watch = NoWatch
  /\ walk = NoWalk

\* the positions at which a handler waits for the microtask queue
MicroPcs == {"openInstall", "upd1", "upd2", "startCont", "stopCont", "closeCont",
             "navCont", "reply", "errReply", "listSend", "statusPoll", "statusSend",
             "bcastPoll", "bcastSend"}
\* the position at which a handler waits for real I/O (fs.stat)
IoPcs == {"openStat"}

MicroPending == \E h \in Handlers : handlers[h].pc \in MicroPcs
Busy(h) == handlers[h].pc # "idle"
FreeSlot == CHOOSE h \in Handlers : ~Busy(h) /\ \A g \in Handlers : g < h => Busy(g)
HasFreeSlot == \E h \in Handlers : ~Busy(h)

\* The state once PresentationControlApp.initialize has returned: nothing is
\* connected, no session, and the registry either empty (no last folder) or
\* holding the scan of the restored last folder (part_001 124-138).
Init ==
  /\ clients = [c \in Conns |-> [registered |-> FALSE, authenticated |-> FALSE]]
  /\ readyState = [c \in Conns |-> "new"]
  /\ authToken = 1
  /\ pm = EmptySession
  /\ fm \in {[currentFolder |-> f, files |-> ScanResult(f), currentFileIndex |-> -1,
              watcher |-> f # NoFolder]
             : f \in {NoFolder, Folder}}
  /\ app = [d \in Drivers |-> 0]
  /\ handlers = [h \in Handlers |-> Idle]
  /\ sent = NoSent
  /\ calls = <<>>
  /\ chunk = 0
  /\ nmsgs = 0
  /\ selection = [selectedFolder |-> fm.currentFolder, folderPath |-> NoFolder, pc |-> "idle"]
  /\ QuietRegistry

\* ------------------------------------------------------------ the drivers
\* KeynoteDriver / PowerPointDriver.getCurrentSlideInfo: never raises
getCurrentSlideInfo(a, d) ==
  IF a[d] = 0 THEN [currentSlide |-> 1, totalSlides |-> 0]
  ELSE [currentSlide |-> a[d], totalSlides |-> MaxSlides]

NotesOf(n) == <<"notes", n>>

\* getSlideNotes: Keynote reads the notes of slide slideNumber, PowerPoint the
\* notes the presenter view shows; both give '' when there is nothing to read
\* and when the script fails (ok is FALSE: the catch of 207-210, 580-584)
getSlideNotes(a, d, slideNumber, ok) ==
  IF ~ok \/ a[d] = 0 THEN NoNotes
  ELSE IF d = "keynote"
       THEN (IF slideNumber \in 1..MaxSlides THEN NotesOf(slideNumber) ELSE NoNotes)
       ELSE NotesOf(a[d])

\* the target application after a driver operation that succeeded
AppAfter(a, d, op) ==
  CASE op = "openFile" -> [a EXCEPT ![d] = 1]
    [] op = "close" -> [a EXCEPT ![d] = 0]
    [] op = "next" -> [a EXCEPT ![d] = IF @ = 0 THEN 0 ELSE IF @ < MaxSlides THEN @ + 1 ELSE @]
    [] op = "prev" -> [a EXCEPT ![d] = IF @ > 1 THEN @ - 1 ELSE @]
    [] OTHER -> a

\* ------------------------------------------------------- sending (903-924)
\* WebSocketServer.send: only to a registered connection whose socket is OPEN
CanSend(c) == c \in Conns /\ clients[c].registered /\ readyState[c] = "open"
send(s, c, msg) == IF CanSend(c) THEN [s EXCEPT ![c] = Append(@, msg)] ELSE s

\* WebSocketServer.broadcast: to every authenticated connection whose socket is OPEN
\* (917-924)
BroadcastTarget(c) == clients[c].registered /\ clients[c].authenticated /\ readyState[c] = "open"
\* a broadcast that stops after the first connection it reaches
broadcastFirst(s, msg) ==
  [c \in Conns |-> IF BroadcastTarget(c) /\ \A b \in Conns : b < c => ~BroadcastTarget(b)
                   THEN Append(s[c], msg) ELSE s[c]]

\* a broadcast to every connection whose socket is OPEN, authenticated or not
broadcastToOpen(s, msg) == [c \in Conns |-> IF CanSend(c) THEN Append(s[c], msg) ELSE s[c]]

broadcast(s, msg) == [c \in Conns |-> IF BroadcastTarget(c) THEN Append(s[c], msg) ELSE s[c]]

\* an error message; prefix is 'Command failed: ' when the catch of handleMessage built it
ErrorMsg(prefix, text) == [type |-> "error", prefix |-> prefix, message |-> text]
sendError(s, c, text) == send(s, c, ErrorMsg("", text))

\* ------------------------------------------------- getStatus (pm 158-192)
\* The object getStatus returns.  cf, idx and count are what its first lines
\* captured; rt is the live poll's answer, NoInfo when there was no poll.
StatusOf(p, folder, cf, idx, count, rt) ==
  [type |-> "status",
   currentFile |-> cf,
   fileType |-> IF cf = NoFile THEN "null" ELSE getFileType(extname(cf)),
   index |-> idx,
   isPresenting |-> p.isPresenting,
   currentSlide |-> IF rt # NoInfo THEN rt.currentSlide ELSE p.currentSlideIndex + 1,
   totalSlides |-> IF rt # NoInfo THEN rt.totalSlides ELSE p.totalSlides,
   slideNotes |-> p.slideNotes,
   folder |-> folder,
   fileCount |-> count,
   driverType |-> p.currentDriver]

\* pm 165: the live poll is made for PowerPoint while presenting
StatusPolls == pm.currentDriver = "powerpoint" /\ pm.isPresenting

\* pm 161
CapturedIndex == IF pm.currentFile # NoFile THEN fm.currentFileIndex ELSE -1

Call(d, op) == [driver |-> d, op |-> op]

\* getStatus up to its first await: with a poll the handler waits at pollPc
\* holding the captured values and the poll's answer, without one the object
\* is complete and the handler waits at sendPc to send it.
BeginStatus(h, pollPc, sendPc) ==
  IF StatusPolls
  THEN [h EXCEPT !.pc = pollPc, !.cf = pm.currentFile, !.idx = CapturedIndex,
                 !.count = Len(fm.files),
                 !.info = getCurrentSlideInfo(app, "powerpoint")]
  ELSE [h EXCEPT !.pc = sendPc,
                 !.snap = StatusOf(pm, fm.currentFolder, pm.currentFile, CapturedIndex,
                                   Len(fm.files), NoInfo)]

StatusCalls == IF StatusPolls THEN <<Call("powerpoint", "getCurrentSlideInfo")>> ELSE <<>>

\* getStatus after the poll's await: the remaining fields are read now
EndStatus(h, sendPc) ==
  [h EXCEPT !.pc = sendPc,
            !.snap = StatusOf(pm, fm.currentFolder, h.cf, h.idx, h.count, h.info)]

\* ------------------------------------------- ws 'message' handler (734-885)
Msg(type, token, path) == [type |-> type, token |-> token, path |-> path]
NoPath == "undefined"
Messages ==
  {Msg("auth", t, NoPath) : t \in Tokens}
  \cup {Msg(ty, 0, NoPath) : ty \in {"malformed", "ping", "status", "listFiles", "start",
                                     "stop", "close", "next", "prev", "bogus"}}
  \cup {Msg("openFile", 0, p) : p \in Paths \cup {NoPath}}

\* what one synchronous run of the handler leaves behind: the fields it may
\* write, the handler's own suspended state (Idle when it ran to its end),
\* what it sent and which driver operations it invoked
Result(cl, a, h, s, k) == [clients |-> cl, app |-> a, h |-> h, sent |-> s, calls |-> k]
Finished(s) == Result(clients, app, Idle, s, <<>>)
Suspended(h, k) == Result(clients, app, h, NoSent, k)
New(c, m, pc) == [Idle EXCEPT !.pc = pc, !.conn = c, !.type = m.type, !.path = m.path]

\* an exception raised inside handlePresentationCommand reaches the catch of
\* handleMessage (806-809) after the rejected promise has been awaited
Thrown(c, m, text) == Suspended([New(c, m, "errReply") EXCEPT !.err = text], <<>>)

\* a comparison that accepts any token
TokenMatchesAny(token) == token \in Tokens

\* 777
TokenMatches(token) == token = authToken

DriverOp(type) ==
  CASE type = "start" -> "startPresentation"
    [] type = "stop" -> "stopPresentation"
    [] type = "close" -> "closePresentation"
    [] type = "next" -> "nextSlide"
    [] type = "prev" -> "prevSlide"

AppOp(type) == IF type \in {"close", "next", "prev"} THEN type ELSE "none"

ContPc(type) ==
  CASE type = "start" -> "startCont"
    [] type = "stop" -> "stopCont"
    [] type = "close" -> "closeCont"
    [] type \in {"next", "prev"} -> "navCont"

\* pm 75, 87, 98, 115, 126: the guard each session command starts with
NoSessionError(type) ==
  CASE type = "start" -> "No presentation file is currently open"
    [] type = "stop" -> "No presentation is currently active"
    [] OTHER -> "No presentation is currently open"

HasSession(type) ==
  IF type = "start" THEN pm.currentDriver # NoDriver /\ pm.currentFile # NoFile
  ELSE pm.currentDriver # NoDriver

\* the session commands without their guard: the call on the missing driver
\* raises a TypeError of the runtime
SessionCommandNoGuard(c, m, ok) ==
  IF pm.currentDriver = NoDriver
  THEN Thrown(c, m, "Cannot read properties of null")
  ELSE Result(clients,
              IF ok THEN AppAfter(app, pm.currentDriver, AppOp(m.type)) ELSE app,
              [New(c, m, ContPc(m.type)) EXCEPT !.ok = ok, !.driver = pm.currentDriver],
              NoSent,
              <<Call(pm.currentDriver, DriverOp(m.type))>>)

\* startPresentation .. prevSlide up to the await of the driver call (pm 74-134)
SessionCommand(c, m, ok) ==
  IF ~HasSession(m.type) THEN Thrown(c, m, NoSessionError(m.type))
  ELSE Result(clients,
              IF ok THEN AppAfter(app, pm.currentDriver, AppOp(m.type)) ELSE app,
              [New(c, m, ContPc(m.type)) EXCEPT !.ok = ok, !.driver = pm.currentDriver],
              NoSent,
              <<Call(pm.currentDriver, DriverOp(m.type))>>)

\* the text is always the same: the type is left out
UnknownCommandNoType(type) == "Unknown command"

\* 883: the text of the error of the default branch, `Unknown command: ${type}`
UnknownCommand(type) ==
  CASE type = "bogus" -> "Unknown command: bogus"
    [] OTHER -> "Unknown command: undefined"

\* 812-885, up to the first await
handlePresentationCommand(c, m, ok) ==
  CASE m.type = "ping" -> Finished(send(NoSent, c, [type |-> "pong"]))
    [] m.type = "status" -> Suspended(BeginStatus(New(c, m, "none"), "statusPoll", "statusSend"),
                                      StatusCalls)
    [] m.type = "listFiles" -> Suspended([New(c, m, "listSend") EXCEPT !.files = fm.files], <<>>)
    [] m.type = "openFile" ->
         IF m.path = NoPath THEN Thrown(c, m, "filePath parameter required")
         ELSE Suspended(New(c, m, "openStat"), <<>>)
    [] m.type \in {"start", "stop", "close", "next", "prev"} -> SessionCommand(c, m, ok)
    [] OTHER -> Thrown(c, m, UnknownCommand(m.type))

\* handleMessage without the check of line 798
handleMessageNoGate(c, m, ok) ==
  IF ~clients[c].registered THEN Finished(NoSent)
  ELSE IF m.type = "auth"
  THEN IF TokenMatches(m.token)
       THEN Result([clients EXCEPT ![c].authenticated = TRUE], app,
                   BeginStatus(New(c, m, "none"), "statusPoll", "statusSend"),
                   send(NoSent, c, [type |-> "authResult", success |-> TRUE]),
                   StatusCalls)
       ELSE Finished(send(NoSent, c, [type |-> "authResult", success |-> FALSE]))
  ELSE handlePresentationCommand(c, m, ok)

\* handleMessage with an auth branch that stores the comparison's outcome
handleMessageDemote(c, m, ok) ==
  IF ~clients[c].registered THEN Finished(NoSent)
  ELSE IF m.type = "auth"
  THEN IF TokenMatches(m.token)
       THEN Result([clients EXCEPT ![c].authenticated = TRUE], app,
                   BeginStatus(New(c, m, "none"), "statusPoll", "statusSend"),
                   send(NoSent, c, [type |-> "authResult", success |-> TRUE]),
                   StatusCalls)
       ELSE Result([clients EXCEPT ![c].authenticated = FALSE], app, Idle,
                   send(NoSent, c, [type |-> "authResult", success |-> FALSE]), <<>>)
  ELSE IF ~clients[c].authenticated
  THEN Finished(sendError(NoSent, c, "Authentication required"))
  ELSE handlePresentationCommand(c, m, ok)

\* 769-810, up to the first await
handleMessage(c, m, ok) ==
  IF ~clients[c].registered THEN Finished(NoSent)
  ELSE IF m.type = "auth"
  THEN IF TokenMatches(m.token)
       THEN Result([clients EXCEPT ![c].authenticated = TRUE], app,
                   BeginStatus(New(c, m, "none"), "statusPoll", "statusSend"),
                   send(NoSent, c, [type |-> "authResult", success |-> TRUE]),
                   StatusCalls)
       ELSE Finished(send(NoSent, c, [type |-> "authResult", success |-> FALSE]))
  ELSE IF ~clients[c].authenticated
  THEN Finished(sendError(NoSent, c, "Authentication required"))
  ELSE handlePresentationCommand(c, m, ok)

\* 734-742: JSON.parse, then handleMessage
onMessage(c, m, ok) ==
  IF m.type = "malformed" THEN Finished(sendError(NoSent, c, "Invalid JSON format"))
  ELSE handleMessage(c, m, ok)

\* a frame arrives: on an open socket, or on one the server has closed in a
\* token rotation and whose peer has not answered the close yet
CanReceive(c) ==
  /\ nmsgs < MaxMsgs
  /\ \/ readyState[c] = "open"
     \/ readyState[c] = "closing" /\ ~clients[c].registered
  /\ ~MicroPending \/ chunk = c

OnMessage(c, m, ok) ==
  /\ CanReceive(c)
  /\ LET r == onMessage(c, m, ok) IN
     /\ r.h.pc # "idle" => HasFreeSlot
     /\ clients' = r.clients
     /\ app' = r.app
     /\ handlers' = IF r.h.pc = "idle" THEN handlers ELSE [handlers EXCEPT ![FreeSlot] = r.h]
     /\ sent' = r.sent
     /\ calls' = r.calls
  /\ nmsgs' = nmsgs + 1
  /\ chunk' = IF MicroPending' THEN c ELSE 0
  /\ UNCHANGED <<readyState, authToken, pm, fm, selection, registryVars>>

\* ------------------------------------------------ resumptions of a handler
\* every resumption runs from the microtask queue except OpenStatDone
Resume(h, pc) == handlers[h].pc = pc
\* the handler has run to its end: the younger ones move up
Done(h) ==
  handlers' = [g \in Handlers |->
                IF g < h THEN handlers[g]
                ELSE IF g < MaxHandlers THEN handlers[g + 1]
                ELSE Idle]
Goto(h, rec) == handlers' = [handlers EXCEPT ![h] = rec]

\* pm 63-72
getDriverForFile(p) ==
  CASE getFileType(extname(p)) = "keynote" -> "keynote"
    [] getFileType(extname(p)) = "powerpoint" -> "powerpoint"
    [] OTHER -> NoDriver

\* pm 26-44: fs.stat has answered; openFile runs on to the await of driver.openFile
OpenStatDone(h, ok) ==
  /\ Resume(h, "openStat")
  /\ ~MicroPending
  /\ LET me == handlers[h]
         index == findIndex(fm.files, me.path)
         driver == getDriverForFile(me.path)
     IN IF ~validateFile(me.path)
        THEN /\ Goto(h, [me EXCEPT !.pc = "reply", !.ok = FALSE])
             /\ calls' = <<>>
             /\ UNCHANGED <<fm, app>>
        ELSE IF index < 0
        THEN /\ Goto(h, [me EXCEPT !.pc = "reply", !.ok = FALSE])
             /\ calls' = <<>>
             /\ UNCHANGED <<fm, app>>
        ELSE IF driver = NoDriver
        THEN /\ fm' = [fm EXCEPT !.currentFileIndex = index]
             /\ Goto(h, [me EXCEPT !.pc = "reply", !.ok = FALSE])
             /\ calls' = <<>>
             /\ UNCHANGED app
        ELSE /\ fm' = [fm EXCEPT !.currentFileIndex = index]
             /\ app' = IF ok THEN AppAfter(app, driver, "openFile") ELSE app
             /\ calls' = <<Call(driver, "openFile")>>
             /\ Goto(h, [me EXCEPT !.pc = "openInstall", !.ok = ok, !.driver = driver])
  /\ sent' = NoSent
  /\ chunk' = 0
  /\ UNCHANGED <<clients, readyState, authToken, pm, nmsgs, selection, registryVars>>

\* pm 138-143: updatePresentationInfo up to the await of getCurrentSlideInfo,
\* entered with the session p; next is where the caller goes on afterwards
BeginUpdate(h, p) ==
  IF p.currentDriver = NoDriver
  THEN /\ Goto(h, [handlers[h] EXCEPT !.pc = "reply"])
       /\ calls' = <<>>
  ELSE /\ Goto(h, [handlers[h] EXCEPT !.pc = "upd1",
                                      !.info = getCurrentSlideInfo(app, p.currentDriver)])
       /\ calls' = <<Call(p.currentDriver, "getCurrentSlideInfo")>>

\* the session is installed without line 48: the presenting flag is kept
InstallSessionKeepFlag(p, driver, file) ==
  [p EXCEPT !.currentDriver = driver, !.currentFile = file]

\* pm 45-51: the session openFile installs
InstallSession(p, driver, file) ==
  [p EXCEPT !.currentDriver = driver, !.currentFile = file, !.isPresenting = FALSE]

\* driver.openFile has answered, and the session is installed before the
\* result is looked at
OpenInstallAlways(h) ==
  /\ Resume(h, "openInstall")
  /\ pm' = InstallSession(pm, handlers[h].driver, handlers[h].path)
  /\ IF handlers[h].ok
     THEN BeginUpdate(h, pm')
     ELSE /\ Goto(h, [handlers[h] EXCEPT !.pc = "reply"])
          /\ calls' = <<>>
  /\ sent' = NoSent
  /\ chunk' = 0
  /\ UNCHANGED <<clients, readyState, authToken, fm, app, nmsgs, selection, registryVars>>

\* pm 45-56: driver.openFile has answered
OpenInstall(h) ==
  /\ Resume(h, "openInstall")
  /\ IF handlers[h].ok
     THEN /\ pm' = InstallSession(pm, handlers[h].driver, handlers[h].path)
          /\ BeginUpdate(h, pm')
     ELSE /\ Goto(h, [handlers[h] EXCEPT !.pc = "reply"])
          /\ calls' = <<>>
          /\ UNCHANGED pm
  /\ sent' = NoSent
  /\ chunk' = 0
  /\ UNCHANGED <<clients, readyState, authToken, fm, app, nmsgs, selection, registryVars>>

\* pm 144-149: getCurrentSlideInfo has answered; the notes are asked of the
\* driver that is current now, and a missing driver is caught by the inner try;
\* ok says whether the notes script succeeds
Upd1(h, ok) ==
  /\ Resume(h, "upd1")
  /\ LET info == handlers[h].info
         p == [pm EXCEPT !.currentSlideIndex = info.currentSlide - 1,
                         !.totalSlides = info.totalSlides]
     IN IF pm.currentDriver = NoDriver
        THEN /\ pm' = [p EXCEPT !.slideNotes = NoNotes]
             /\ Goto(h, [handlers[h] EXCEPT !.pc = "reply"])
             /\ calls' = <<>>
        ELSE /\ pm' = p
             /\ Goto(h, [handlers[h] EXCEPT
                           !.pc = "upd2",
                           !.notes = getSlideNotes(app, pm.currentDriver, info.currentSlide,
                                                  ok)])
             /\ calls' = <<Call(pm.currentDriver, "getSlideNotes")>>
  /\ sent' = NoSent
  /\ chunk' = 0
  /\ UNCHANGED <<clients, readyState, authToken, fm, app, nmsgs, selection, registryVars>>

\* the fetched notes are stored only when there are any
Upd2KeepOnEmpty(h) ==
  /\ Resume(h, "upd2")
  /\ pm' = IF handlers[h].notes = NoNotes THEN pm
           ELSE [pm EXCEPT !.slideNotes = handlers[h].notes]
  /\ Goto(h, [handlers[h] EXCEPT !.pc = "reply"])
  /\ sent' = NoSent
  /\ calls' = <<>>
  /\ chunk' = 0
  /\ UNCHANGED <<clients, readyState, authToken, fm, app, nmsgs, selection, registryVars>>

\* pm 149: getSlideNotes has answered
Upd2(h) ==
  /\ Resume(h, "upd2")
  /\ pm' = [pm EXCEPT !.slideNotes = handlers[h].notes]
  /\ Goto(h, [handlers[h] EXCEPT !.pc = "reply"])
  /\ sent' = NoSent
  /\ calls' = <<>>
  /\ chunk' = 0
  /\ UNCHANGED <<clients, readyState, authToken, fm, app, nmsgs, selection, registryVars>>

\* the driver raised: the rejection travels up to the catch of handleMessage
Raise(h, text) == Goto(h, [handlers[h] EXCEPT !.pc = "errReply", !.err = text])

\* startPresentation with the flag written before the driver's outcome is
\* looked at
StartContEager(h) ==
  /\ Resume(h, "startCont")
  /\ pm' = [pm EXCEPT !.isPresenting = TRUE]
  /\ IF handlers[h].ok
     THEN BeginUpdate(h, pm')
     ELSE /\ Raise(h, "Failed to start presentation")
          /\ calls' = <<>>
  /\ sent' = NoSent
  /\ chunk' = 0
  /\ UNCHANGED <<clients, readyState, authToken, fm, app, nmsgs, selection, registryVars>>

\* pm 79-81
StartCont(h) ==
  /\ Resume(h, "startCont")
  /\ IF handlers[h].ok
     THEN /\ pm' = [pm EXCEPT !.isPresenting = TRUE]
          /\ BeginUpdate(h, pm')
     ELSE /\ Raise(h, "Failed to start presentation")
          /\ calls' = <<>>
          /\ UNCHANGED pm
  /\ sent' = NoSent
  /\ chunk' = 0
  /\ UNCHANGED <<clients, readyState, authToken, fm, app, nmsgs, selection, registryVars>>

\* pm 91-92
StopCont(h) ==
  /\ Resume(h, "stopCont")
  /\ IF handlers[h].ok
     THEN /\ pm' = [pm EXCEPT !.isPresenting = FALSE]
          /\ Goto(h, [handlers[h] EXCEPT !.pc = "reply"])
     ELSE /\ Raise(h, "Failed to stop presentation")
          /\ UNCHANGED pm
  /\ sent' = NoSent
  /\ calls' = <<>>
  /\ chunk' = 0
  /\ UNCHANGED <<clients, readyState, authToken, fm, app, nmsgs, selection, registryVars>>

\* pm 104-109: the fields closePresentation resets
ResetOnClose(p) ==
  [p EXCEPT !.currentDriver = NoDriver, !.currentFile = NoFile, !.isPresenting = FALSE,
            !.currentSlideIndex = 0, !.totalSlides = 0]

\* pm 102-109
CloseCont(h) ==
  /\ Resume(h, "closeCont")
  /\ IF handlers[h].ok
     THEN /\ pm' = ResetOnClose(pm)
          /\ Goto(h, [handlers[h] EXCEPT !.pc = "reply"])
     ELSE /\ Raise(h, "Failed to close presentation")
          /\ UNCHANGED pm
  /\ sent' = NoSent
  /\ calls' = <<>>
  /\ chunk' = 0
  /\ UNCHANGED <<clients, readyState, authToken, fm, app, nmsgs, selection, registryVars>>

\* pm 119-120, 130-131
NavCont(h) ==
  /\ Resume(h, "navCont")
  /\ IF handlers[h].ok
     THEN BeginUpdate(h, pm)
     ELSE /\ Raise(h, "Failed to go to slide")
          /\ calls' = <<>>
  /\ sent' = NoSent
  /\ chunk' = 0
  /\ UNCHANGED <<clients, readyState, authToken, pm, fm, app, nmsgs, selection, registryVars>>

\* 837-842, 850, 856, 862, 868, 874: the direct response of a command
DirectResponse(me) ==
  IF me.type = "openFile"
  THEN [type |-> "fileOpened", success |-> me.ok, filePath |-> me.path]
  ELSE [type |-> "commandResult", command |-> me.type, success |-> TRUE]

\* the response is sent and the broadcast that follows it raises, which takes
\* the handler to the catch of handleMessage
ReplyThenRaise(h) ==
  /\ Resume(h, "reply")
  /\ sent' = send(NoSent, handlers[h].conn, DirectResponse(handlers[h]))
  /\ Raise(h, "broadcast failed")
  /\ calls' = <<>>
  /\ chunk' = 0
  /\ UNCHANGED <<clients, readyState, authToken, pm, fm, app, nmsgs, selection, registryVars>>

\* 837-845, 850-851, ...: the command has returned; its response is sent and
\* broadcastStatus runs up to its await
Reply(h) ==
  /\ Resume(h, "reply")
  /\ sent' = send(NoSent, handlers[h].conn, DirectResponse(handlers[h]))
  /\ Goto(h, BeginStatus(handlers[h], "bcastPoll", "bcastSend"))
  /\ calls' = StatusCalls
  /\ chunk' = 0
  /\ UNCHANGED <<clients, readyState, authToken, pm, fm, app, nmsgs, selection, registryVars>>

\* the live poll's answer is written to the cache, the slide number as it came
BcastPollCaching(h) ==
  /\ Resume(h, "bcastPoll")
  /\ pm' = [pm EXCEPT !.currentSlideIndex = handlers[h].info.currentSlide,
                      !.totalSlides = handlers[h].info.totalSlides]
  /\ Goto(h, EndStatus(handlers[h], "bcastSend"))
  /\ sent' = NoSent
  /\ calls' = <<>>
  /\ chunk' = 0
  /\ UNCHANGED <<clients, readyState, authToken, fm, app, nmsgs, selection, registryVars>>

\* pm 175-191 after the live poll
BcastPoll(h) ==
  /\ Resume(h, "bcastPoll")
  /\ Goto(h, EndStatus(handlers[h], "bcastSend"))
  /\ sent' = NoSent
  /\ calls' = <<>>
  /\ chunk' = 0
  /\ UNCHANGED <<clients, readyState, authToken, pm, fm, app, nmsgs, selection, registryVars>>

\* 895-901
BcastSend(h) ==
  /\ Resume(h, "bcastSend")
  /\ sent' = broadcast(NoSent, handlers[h].snap)
  /\ Done(h)
  /\ calls' = <<>>
  /\ chunk' = 0
  /\ UNCHANGED <<clients, readyState, authToken, pm, fm, app, nmsgs, selection, registryVars>>

StatusPoll(h) ==
  /\ Resume(h, "statusPoll")
  /\ Goto(h, EndStatus(handlers[h], "statusSend"))
  /\ sent' = NoSent
  /\ calls' = <<>>
  /\ chunk' = 0
  /\ UNCHANGED <<clients, readyState, authToken, pm, fm, app, nmsgs, selection, registryVars>>

\* 887-893
StatusSend(h) ==
  /\ Resume(h, "statusSend")
  /\ sent' = send(NoSent, handlers[h].conn, handlers[h].snap)
  /\ Done(h)
  /\ calls' = <<>>
  /\ chunk' = 0
  /\ UNCHANGED <<clients, readyState, authToken, pm, fm, app, nmsgs, selection, registryVars>>

\* 825-829
ListSend(h) ==
  /\ Resume(h, "listSend")
  /\ sent' = send(NoSent, handlers[h].conn, [type |-> "fileList", files |-> handlers[h].files])
  /\ Done(h)
  /\ calls' = <<>>
  /\ chunk' = 0
  /\ UNCHANGED <<clients, readyState, authToken, pm, fm, app, nmsgs, selection, registryVars>>

\* the catch logs the error and sends nothing
ErrReplySilent(h) ==
  /\ Resume(h, "errReply")
  /\ sent' = NoSent
  /\ Done(h)
  /\ calls' = <<>>
  /\ chunk' = 0
  /\ UNCHANGED <<clients, readyState, authToken, pm, fm, app, nmsgs, selection, registryVars>>

\* 806-809
ErrReply(h) ==
  /\ Resume(h, "errReply")
  /\ sent' = send(NoSent, handlers[h].conn, ErrorMsg("Command failed: ", handlers[h].err))
  /\ Done(h)
  /\ calls' = <<>>
  /\ chunk' = 0
  /\ UNCHANGED <<clients, readyState, authToken, pm, fm, app, nmsgs, selection, registryVars>>

\* ------------------------------------------------- connections (722-760)
\* connection ids are fresh uuids: an id is used once
Connect(c) ==
  /\ readyState[c] = "new"
  /\ \A b \in Conns : b < c => readyState[b] # "new"
  /\ ~MicroPending
  /\ clients' = [clients EXCEPT ![c] = [registered |-> TRUE, authenticated |-> FALSE]]
  /\ readyState' = [readyState EXCEPT ![c] = "open"]
  /\ sent' = [NoSent EXCEPT ![c] = <<[type |-> "handshake", authRequired |-> TRUE]>>]
  /\ calls' = <<>>
  /\ chunk' = 0
  /\ UNCHANGED <<authToken, pm, fm, app, handlers, nmsgs, selection, registryVars>>

\* the peer's close frame arrives or the socket dies: readyState leaves OPEN
\* before the 'close' event is emitted
PeerClosing(c) ==
  /\ readyState[c] = "open"
  /\ ~MicroPending
  /\ readyState' = [readyState EXCEPT ![c] = "closing"]
  /\ sent' = NoSent
  /\ calls' = <<>>
  /\ chunk' = 0
  /\ UNCHANGED <<clients, authToken, pm, fm, app, handlers, nmsgs, selection, registryVars>>

\* 744-752: ws 'close' / 'error'
CloseEvent(c) ==
  /\ readyState[c] = "closing"
  /\ ~MicroPending
  /\ readyState' = [readyState EXCEPT ![c] = "closed"]
  /\ clients' = [clients EXCEPT ![c] = [registered |-> FALSE, authenticated |-> FALSE]]
  /\ sent' = NoSent
  /\ calls' = <<>>
  /\ chunk' = 0
  /\ UNCHANGED <<authToken, pm, fm, app, handlers, nmsgs, selection, registryVars>>

\* --------------------------------------------------------- token rotation
\* TokenManager.regenerateToken: a new secret, different from the current one
regenerateToken(old) == Tokens \ {old}

\* disconnectAllClients without the clients.clear() of line 958
disconnectAllClientsNoClear ==
  /\ sent' = [c \in Conns |->
               IF clients[c].registered /\ readyState[c] = "open"
               THEN <<[type |-> "tokenChanged"]>> ELSE <<>>]
  /\ readyState' = [c \in Conns |->
                     IF clients[c].registered /\ readyState[c] = "open"
                     THEN "closing" ELSE readyState[c]]
  /\ UNCHANGED clients

\* the connections are closed and forgotten without being told
disconnectAllClientsNoNotice ==
  /\ sent' = NoSent
  /\ readyState' = [c \in Conns |->
                     IF clients[c].registered /\ readyState[c] = "open"
                     THEN "closing" ELSE readyState[c]]
  /\ clients' = [c \in Conns |-> [registered |-> FALSE, authenticated |-> FALSE]]

\* 947-959
disconnectAllClients ==
  /\ sent' = [c \in Conns |->
               IF clients[c].registered /\ readyState[c] = "open"
               THEN <<[type |-> "tokenChanged"]>> ELSE <<>>]
  /\ readyState' = [c \in Conns |->
                     IF clients[c].registered /\ readyState[c] = "open"
                     THEN "closing" ELSE readyState[c]]
  /\ clients' = [c \in Conns |-> [registered |-> FALSE, authenticated |-> FALSE]]

\* part_001 258-289: the user confirms 'Regenerate Token'
RegenerateAuthToken ==
  /\ ~MicroPending
  /\ authToken' \in regenerateToken(authToken)
  /\ disconnectAllClients
  /\ calls' = <<>>
  /\ chunk' = 0
  /\ UNCHANGED <<pm, fm, app, handlers, nmsgs, selection, registryVars>>

\* ---------------------------------------------------------- specification
\* Connections, authentication, token rotation and the commands, in runs where
\* the notes script of the drivers succeeds.
Next ==
  \/ \E c \in Conns : Connect(c)
  \/ \E c \in Conns : PeerClosing(c)
  \/ \E c \in Conns : CloseEvent(c)
  \/ \E c \in Conns, m \in Messages, ok \in BOOLEAN : OnMessage(c, m, ok)
  \/ \E h \in Handlers, ok \in BOOLEAN : OpenStatDone(h, ok)
  \/ \E h \in Handlers : OpenInstall(h)
  \/ \E h \in Handlers : Upd1(h, TRUE)
  \/ \E h \in Handlers : Upd2(h)
  \/ \E h \in Handlers : StartCont(h)
  \/ \E h \in Handlers : StopCont(h)
  \/ \E h \in Handlers : CloseCont(h)
  \/ \E h \in Handlers : NavCont(h)
  \/ \E h \in Handlers : Reply(h)
  \/ \E h \in Handlers : BcastPoll(h)
  \/ \E h \in Handlers : BcastSend(h)
  \/ \E h \in Handlers : StatusPoll(h)
  \/ \E h \in Handlers : StatusSend(h)
  \/ \E h \in Handlers : ListSend(h)
  \/ \E h \in Handlers : ErrReply(h)
  \/ RegenerateAuthToken

Spec == Init /\ [][Next]_vars

\* ------------------------------------------------- heartbeat (926-941)
\* a tick that leaves the clients map as it is
setupPingIntervalKeepsAll ==
  /\ ~MicroPending
  /\ sent' = NoSent
  /\ calls' = <<>>
  /\ chunk' = 0
  /\ UNCHANGED <<clients, readyState, authToken, pm, fm, app, handlers, nmsgs, selection,
                 registryVars>>

\* One tick of the interval timer, a macrotask.  An entry whose socket is OPEN
\* is kept (and pinged when its last ping is 30 s old: a control frame, which
\* is no message of the protocol and is not recorded in sent), every other
\* entry is deleted from the clients map.
setupPingInterval ==
  /\ ~MicroPending
  /\ clients' = [c \in Conns |->
                  IF clients[c].registered /\ readyState[c] # "open"
                  THEN [registered |-> FALSE, authenticated |-> FALSE]
                  ELSE clients[c]]
  /\ sent' = NoSent
  /\ calls' = <<>>
  /\ chunk' = 0
  /\ UNCHANGED <<readyState, authToken, pm, fm, app, handlers, nmsgs, selection, registryVars>>

HeartbeatNext == Next \/ setupPingInterval

HeartbeatSpec == Init /\ [][HeartbeatNext]_vars

\* ------------------------------------------- folder selection (part_001 80-165)
\* Menu clicks and I/O completions are macrotasks.  One selectFolder is in
\* flight at a time (its dialog is modal).  The readdir of scanFiles and the
\* stats that follow it are taken as one completion.
FolderChanged(folder, files) == [type |-> "folderChanged", folder |-> folder, files |-> files]

\* part_001 98-105 and fm 14-20: the dialog has returned folder f;
\* fileManager.setFolder runs up to its first await
SelectFolder(f) ==
  /\ selection.pc = "idle"
  /\ ~MicroPending
  /\ selection' = [selectedFolder |-> f, folderPath |-> f,
                   pc |-> IF fm.watcher THEN "closeWatcher" ELSE "readdir"]
  /\ fm' = IF fm.watcher THEN fm
           ELSE [fm EXCEPT !.currentFolder = f, !.currentFileIndex = -1]
  /\ sent' = NoSent
  /\ calls' = <<>>
  /\ chunk' = 0
  /\ UNCHANGED <<clients, readyState, authToken, pm, app, handlers, nmsgs, registryVars>>

\* fm 16-24: watcher.close() has resolved; scanFiles starts its readdir
WatcherClosed ==
  /\ selection.pc = "closeWatcher"
  /\ ~MicroPending
  /\ fm' = [fm EXCEPT !.currentFolder = selection.folderPath, !.currentFileIndex = -1]
  /\ selection' = [selection EXCEPT !.pc = "readdir"]
  /\ sent' = NoSent
  /\ calls' = <<>>
  /\ chunk' = 0
  /\ UNCHANGED <<clients, readyState, authToken, pm, app, handlers, nmsgs, registryVars>>

\* fm 40-69, 84-91, part_001 107-120: the scan has its entries; with the folder
\* cleared meanwhile path.join raises and the catch leaves an empty list.  Then
\* setupWatcher, and selectFolder broadcasts folderChanged.
ScanDone ==
  /\ selection.pc = "readdir"
  /\ ~MicroPending
  /\ fm' = [fm EXCEPT !.files = ScanResult(fm.currentFolder),
                      !.watcher = IF fm.currentFolder = NoFolder THEN @ ELSE TRUE]
  /\ selection' = [selection EXCEPT !.pc = "idle", !.folderPath = NoFolder]
  /\ sent' = broadcast(NoSent, FolderChanged(selection.selectedFolder, fm'.files))
  /\ calls' = <<>>
  /\ chunk' = 0
  /\ UNCHANGED <<clients, readyState, authToken, pm, app, handlers, nmsgs, registryVars>>

\* part_001 146-165 and fm 209-222; the menu entry is enabled while a folder
\* is selected (part_001 176)
ClearFolder ==
  /\ selection.selectedFolder # NoFolder
  /\ ~MicroPending
  /\ selection' = [selection EXCEPT !.selectedFolder = NoFolder]
  /\ fm' = [fm EXCEPT !.currentFolder = NoFolder, !.files = <<>>,
                      !.currentFileIndex = -1, !.watcher = FALSE]
  /\ sent' = broadcast(NoSent, FolderChanged(NoFolder, <<>>))
  /\ calls' = <<>>
  /\ chunk' = 0
  /\ UNCHANGED <<clients, readyState, authToken, pm, app, handlers, nmsgs, registryVars>>

\* One client is connected and authenticated and has received the status
\* pushed after its auth; the last folder was restored.
FolderInit ==
  /\ clients = [c \in Conns |-> [registered |-> c = 1, authenticated |-> c = 1]]
  /\ readyState = [c \in Conns |-> IF c = 1 THEN "open" ELSE "new"]
  /\ authToken = 1
  /\ pm = EmptySession
  /\ fm = [currentFolder |-> Folder, files |-> ScanResult(Folder), currentFileIndex |-> -1,
           watcher |-> TRUE]
  /\ app = [d \in Drivers |-> 0]
  /\ handlers = [h \in Handlers |-> Idle]
  /\ sent = NoSent
  /\ calls = <<>>
  /\ chunk = 0
  /\ nmsgs = 1
  /\ selection = [selectedFolder |-> Folder, folderPath |-> NoFolder, pc |-> "idle"]
  /\ QuietRegistry

\* the commands of that client interleaved with the user's folder actions
FolderNext ==
  \/ \E c \in Conns, m \in Messages, ok \in BOOLEAN : OnMessage(c, m, ok)
  \/ \E h \in Handlers :
       \/ \E ok \in BOOLEAN : OpenStatDone(h, ok)
       \/ OpenInstall(h) \/ (\E ok \in BOOLEAN : Upd1(h, ok)) \/ Upd2(h)
       \/ StartCont(h) \/ StopCont(h) \/ CloseCont(h) \/ NavCont(h)
       \/ Reply(h) \/ BcastPoll(h) \/ BcastSend(h)
       \/ StatusPoll(h) \/ StatusSend(h) \/ ListSend(h) \/ ErrReply(h)
  \/ SelectFolder(Folder)
  \/ WatcherClosed
  \/ ScanDone
  \/ ClearFolder

FolderSpec == FolderInit /\ [][FolderNext]_vars

\* The server with its connections coming and going (Next) together with the
\* user's folder actions, from the state in which one client is authenticated:
\* other clients connect, authenticate or not, and are there when the
\* application broadcasts.
AudienceNext == Next \/ SelectFolder(Folder) \/ WatcherClosed \/ ScanDone \/ ClearFolder

AudienceSpec == FolderInit /\ [][AudienceNext]_vars

\* ------------------------------------------- a send that raises (917-924)
\* broadcast calls client.ws.send inside clients.forEach with no try around
\* it.  When the send to connection bad raises, the connections the Map holds
\* before bad have been written to, the ones after it are not reached, and the
\* exception leaves broadcastStatus and handlePresentationCommand and arrives
\* at the catch of handleMessage (806-809).  The Map iterates in the order of
\* insertion, which from FolderInit is the order of the connection ids.
SendFailed == "send failed"

BcastSendRaises(h, bad) ==
  /\ Resume(h, "bcastSend")
  /\ BroadcastTarget(bad)
  /\ sent' = [c \in Conns |-> IF BroadcastTarget(c) /\ c < bad
                              THEN <<handlers[h].snap>> ELSE <<>>]
  /\ Goto(h, [handlers[h] EXCEPT !.pc = "errReply", !.err = SendFailed])
  /\ calls' = <<>>
  /\ chunk' = 0
  /\ UNCHANGED <<clients, readyState, authToken, pm, fm, app, nmsgs, selection, registryVars>>

\* the clients' commands and the folder actions, a second client connecting,
\* and broadcasts in which a send raises
FailingSendNext ==
  \/ FolderNext
  \/ \E c \in Conns : Connect(c)
  \/ \E h \in Handlers, bad \in Conns : BcastSendRaises(h, bad)

FailingSendSpec == FolderInit /\ [][FailingSendNext]_vars

\* --------------------------------------- the file registry (file-manager.js)
\* The FileManager on its own.  Its operations are called by the application
\* and the session manager; its readdir, its stats and its watcher are real
\* I/O.  A scanFiles that a watch handler starts is not awaited, so several
\* scans can be in flight; each is resumed when its readdir answers and when
\* each of its stats answers.
MaxScans == 2
MaxFsChanges == 1
MaxFiles == 3

\* what the folders hold when the program starts
StartDisk ==
  [f \in Folders |-> IF f = Folder THEN {"a.key", "D.KEY", "sub.key", "n.txt"}
                     ELSE {"a.key", "b.pptx", "c.ppt"}]

\* the regular files a test may create, delete or modify
Volatile == {"a.key", "b.pptx"}

\* Dirent.isFile()
isFile(name) == name # "sub.key"

\* fs.readdir: the entries in the order of the directory, which is not the
\* order of the names
RECURSIVE readdir(_)
readdir(S) ==
  IF S = {} THEN <<>>
  ELSE LET last == CHOOSE p \in S : \A q \in S : NameRank(p) >= NameRank(q)
       IN <<last>> \o readdir(S \ {last})

\* path.join(folder, name)
join(folder, name) == <<folder, name>>

\* fm 50-57: the entry scanFiles builds for a file; the name is the directory
\* entry's, the path is the joined one
Entry(path) ==
  [name |-> path[2], path |-> path, extension |-> extname(path[2]),
   type |-> getFileType(extname(path[2]))]

\* fm 44-46: the entries scanFiles takes
Matches(name) == isFile(name) /\ extname(name) \in supportedExtensions

\* Array.prototype.sort with the comparator of line 63 (stable)
RECURSIVE InsertByName(_, _)
InsertByName(e, s) ==
  IF s = <<>> THEN <<e>>
  ELSE IF NameRank(e.name) <= NameRank(Head(s).name) THEN <<e>> \o s
  ELSE <<Head(s)>> \o InsertByName(e, Tail(s))

\* the list is stored in the order the entries were found
sortByNameSkipped(s) == s

RECURSIVE sortByName(_)
sortByName(s) == IF s = <<>> THEN <<>> ELSE InsertByName(Head(s), sortByName(Tail(s)))

PathsOf(files) == [i \in 1..Len(files) |-> files[i].path]

\* what started a scan
BySetFolder == [kind |-> "setFolder", path |-> <<>>]

\* fm 33-40: scanFiles up to its readdir
scanFiles(f, sc, cause) ==
  IF f.currentFolder = NoFolder
  THEN [fm |-> [f EXCEPT !.files = <<>>], scans |-> sc]
  ELSE [fm |-> f,
        scans |-> Append(sc, [dir |-> f.currentFolder, pc |-> "readdir", entries |-> <<>>,
                              todo |-> <<>>, path |-> <<>>, found |-> <<>>,
                              cause |-> cause])]

\* chokidar reports the files a folder holds when the watch starts
InitialAdds(folder) ==
  LET files == SelectSeq(readdir(disk[folder]), isFile)
  IN [k \in 1..Len(files) |-> [kind |-> "add", path |-> join(folder, files[k])]]

RemoveAt(sc, i) == SubSeq(sc, 1, i - 1) \o SubSeq(sc, i + 1, Len(sc))

\* fm 65 / 68: scan i stores its list and ends; the setFolder that awaited it
\* goes on to setupWatcher (fm 27, 84-91)
ScanEnds(i, files) ==
  /\ scans' = RemoveAt(scans, i)
  /\ IF scans[i].cause = BySetFolder
     THEN /\ selection' = [selection EXCEPT !.pc = "idle", !.folderPath = NoFolder]
          /\ IF fm.currentFolder = NoFolder
             THEN /\ fm' = [fm EXCEPT !.files = files]
                  /\ UNCHANGED watch
             ELSE /\ fm' = [fm EXCEPT !.files = files, !.watcher = TRUE]
                  /\ watch' = [live |-> TRUE, pending |-> InitialAdds(fm.currentFolder)]
     ELSE /\ fm' = [fm EXCEPT !.files = files]
          /\ UNCHANGED <<selection, watch>>

\* the other variables of the program, which the registry does not touch
serverVars == <<clients, readyState, authToken, pm, app, handlers, sent, calls, chunk, nmsgs>>

\* fm 14-24, called with no setFolder in flight
FmSetFolder(f) ==
  /\ selection.pc = "idle"
  /\ Len(scans) < MaxScans
  /\ IF fm.watcher
     THEN /\ selection' = [selection EXCEPT !.pc = "closeWatcher", !.folderPath = f]
          /\ watch' = NoWatch
          /\ UNCHANGED <<fm, scans>>
     ELSE LET r == scanFiles([fm EXCEPT !.currentFolder = f, !.currentFileIndex = -1],
                             scans, BySetFolder)
          IN /\ selection' = [selection EXCEPT !.pc = "scan", !.folderPath = f]
             /\ fm' = r.fm
             /\ scans' = r.scans
             /\ UNCHANGED watch
  /\ UNCHANGED <<serverVars, disk, fsChanges, walk>>

\* fm 17-24: watcher.close() has resolved
FmWatcherClosed ==
  /\ selection.pc = "closeWatcher"
  /\ Len(scans) < MaxScans
  /\ LET r == scanFiles([fm EXCEPT !.currentFolder = selection.folderPath,
                                   !.currentFileIndex = -1],
                        scans, BySetFolder)
     IN /\ selection' = [selection EXCEPT !.pc = "scan"]
        /\ fm' = r.fm
        /\ scans' = r.scans
  /\ UNCHANGED <<serverVars, disk, fsChanges, watch, walk>>

\* fm 40-48: the readdir of scan i has answered; the loop runs to the stat of
\* the first entry it takes.  path.join raises when currentFolder has become
\* null, and the catch stores an empty list.
FmReaddirDone(i) ==
  /\ i \in 1..Len(scans)
  /\ scans[i].pc = "readdir"
  /\ LET entries == readdir(disk[scans[i].dir])
         taken == SelectSeq(entries, Matches)
     IN IF taken = <<>> \/ fm.currentFolder = NoFolder
        THEN ScanEnds(i, <<>>)
        ELSE /\ scans' = [scans EXCEPT ![i].pc = "stat", ![i].entries = entries,
                                       ![i].path = join(fm.currentFolder, Head(taken)),
                                       ![i].todo = Tail(taken)]
             /\ UNCHANGED <<fm, selection, watch>>
  /\ UNCHANGED <<serverVars, disk, fsChanges, walk>>

\* a stat that fails drops its entry and the scan goes on
FmStatDoneSkipsMissing(i) ==
  /\ i \in 1..Len(scans)
  /\ scans[i].pc = "stat"
  /\ LET s == scans[i]
         found == IF s.path[2] \in disk[s.path[1]] THEN Append(s.found, Entry(s.path))
                  ELSE s.found
     IN IF s.todo = <<>> THEN ScanEnds(i, sortByName(found))
        ELSE IF fm.currentFolder = NoFolder THEN ScanEnds(i, <<>>)
        ELSE /\ scans' = [scans EXCEPT ![i].found = found,
                                       ![i].path = join(fm.currentFolder, Head(s.todo)),
                                       ![i].todo = Tail(s.todo)]
             /\ UNCHANGED <<fm, selection, watch>>
  /\ UNCHANGED <<serverVars, disk, fsChanges, walk>>

\* fm 48-69: a stat of scan i has answered: it raises when the file is gone,
\* else the entry is pushed and the loop goes on to the next stat or, after
\* the last one, to the sort and the assignment
FmStatDone(i) ==
  /\ i \in 1..Len(scans)
  /\ scans[i].pc = "stat"
  /\ LET s == scans[i]
         found == Append(s.found, Entry(s.path))
     IN IF s.path[2] \notin disk[s.path[1]] THEN ScanEnds(i, <<>>)
        ELSE IF s.todo = <<>> THEN ScanEnds(i, sortByName(found))
        ELSE IF fm.currentFolder = NoFolder THEN ScanEnds(i, <<>>)
        ELSE /\ scans' = [scans EXCEPT ![i].found = found,
                                       ![i].path = join(fm.currentFolder, Head(s.todo)),
                                       ![i].todo = Tail(s.todo)]
             /\ UNCHANGED <<fm, selection, watch>>
  /\ UNCHANGED <<serverVars, disk, fsChanges, walk>>

\* fm 209-222
FmClearFolder ==
  /\ fm' = [fm EXCEPT !.currentFolder = NoFolder, !.files = <<>>,
                      !.currentFileIndex = -1, !.watcher = FALSE]
  /\ watch' = NoWatch
  /\ UNCHANGED <<serverVars, selection, disk, fsChanges, scans, walk>>

\* the head of the watcher's queue is an event of this kind
Emits(kind) == watch.live /\ watch.pending # <<>> /\ Head(watch.pending).kind = kind

\* fm 93-99 and 116-122: 'add' and 'change' rescan when the extension is a
\* supported one
Rescan(e) ==
  IF extname(e.path[2]) \in supportedExtensions
  THEN /\ Len(scans) < MaxScans
       /\ LET r == scanFiles(fm, scans, e) IN fm' = r.fm /\ scans' = r.scans
  ELSE UNCHANGED <<fm, scans>>

WatchAdd ==
  /\ Emits("add")
  /\ Rescan(Head(watch.pending))
  /\ watch' = [watch EXCEPT !.pending = Tail(@)]
  /\ UNCHANGED <<serverVars, selection, disk, fsChanges, walk>>

WatchChange ==
  /\ Emits("change")
  /\ Rescan(Head(watch.pending))
  /\ watch' = [watch EXCEPT !.pending = Tail(@)]
  /\ UNCHANGED <<serverVars, selection, disk, fsChanges, walk>>

\* fm 108-112: the cursor is reset when it designates the removed path
resetIfCurrent(f, path) ==
  IF /\ f.currentFileIndex >= 0
     /\ f.currentFileIndex < Len(f.files)
     /\ f.files[f.currentFileIndex + 1].path = path
  THEN [f EXCEPT !.currentFileIndex = -1]
  ELSE f

\* the handler rescans and leaves the cursor alone
WatchUnlinkKeepsCursor ==
  /\ Emits("unlink")
  /\ Rescan(Head(watch.pending))
  /\ watch' = [watch EXCEPT !.pending = Tail(@)]
  /\ UNCHANGED <<serverVars, selection, disk, fsChanges, walk>>

\* fm 101-114: 'unlink' starts the rescan, which is not awaited, and then
\* looks at the cursor
WatchUnlink ==
  /\ Emits("unlink")
  /\ LET e == Head(watch.pending) IN
     IF extname(e.path[2]) \in supportedExtensions
     THEN /\ Len(scans) < MaxScans
          /\ LET r == scanFiles(fm, scans, e)
             IN /\ fm' = resetIfCurrent(r.fm, e.path)
                /\ scans' = r.scans
     ELSE UNCHANGED <<fm, scans>>
  /\ watch' = [watch EXCEPT !.pending = Tail(@)]
  /\ UNCHANGED <<serverVars, selection, disk, fsChanges, walk>>

\* the watcher detects a change in the folder it watches
Detect(f, kind, name) ==
  IF watch.live /\ fm.currentFolder = f
  THEN [watch EXCEPT !.pending = Append(@, [kind |-> kind, path |-> join(f, name)])]
  ELSE watch

\* the user's other programs create, delete and modify files
FsAdd(f, name) ==
  /\ fsChanges < MaxFsChanges
  /\ name \notin disk[f]
  /\ disk' = [disk EXCEPT ![f] = @ \cup {name}]
  /\ fsChanges' = fsChanges + 1
  /\ watch' = Detect(f, "add", name)
  /\ UNCHANGED <<serverVars, fm, selection, scans, walk>>

FsRemove(f, name) ==
  /\ fsChanges < MaxFsChanges
  /\ name \in disk[f]
  /\ disk' = [disk EXCEPT ![f] = @ \ {name}]
  /\ fsChanges' = fsChanges + 1
  /\ watch' = Detect(f, "unlink", name)
  /\ UNCHANGED <<serverVars, fm, selection, scans, walk>>

FsModify(f, name) ==
  /\ fsChanges < MaxFsChanges
  /\ name \in disk[f]
  /\ fsChanges' = fsChanges + 1
  /\ watch' = Detect(f, "change", name)
  /\ UNCHANGED <<serverVars, fm, selection, scans, disk, walk>>

\* fm 136-143
setCurrentFile(f, path) ==
  LET index == findIndex(PathsOf(f.files), path)
  IN IF index >= 0 THEN [f EXCEPT !.currentFileIndex = index] ELSE f

\* the cursor stops at the last entry instead of wrapping
nextFileNoWrap(f) ==
  IF Len(f.files) = 0 THEN f
  ELSE [f EXCEPT !.currentFileIndex =
                   IF @ + 1 >= Len(f.files) THEN Len(f.files) - 1 ELSE @ + 1]

\* fm 145-150
nextFile(f) ==
  IF Len(f.files) = 0 THEN f
  ELSE [f EXCEPT !.currentFileIndex = (f.currentFileIndex + 1) % Len(f.files)]

\* fm 152-159
prevFile(f) ==
  IF Len(f.files) = 0 THEN f
  ELSE [f EXCEPT !.currentFileIndex =
                   IF f.currentFileIndex <= 0 THEN Len(f.files) - 1
                   ELSE f.currentFileIndex - 1]

\* the cursor is assigned before the index is tested
getFileByIndexAssignsFirst(f, index) == [f EXCEPT !.currentFileIndex = index]

\* fm 161-167
getFileByIndex(f, index) ==
  IF index >= 0 /\ index < Len(f.files) THEN [f EXCEPT !.currentFileIndex = index] ELSE f

FmSetCurrentFile(path) ==
  /\ fm' = setCurrentFile(fm, path)
  /\ UNCHANGED <<serverVars, selection, registryVars>>

FmGetFileByIndex(index) ==
  /\ fm' = getFileByIndex(fm, index)
  /\ UNCHANGED <<serverVars, selection, registryVars>>

FmNextFile ==
  /\ fm' = nextFile(fm)
  /\ UNCHANGED <<serverVars, selection, registryVars>>

FmPrevFile ==
  /\ fm' = prevFile(fm)
  /\ UNCHANGED <<serverVars, selection, registryVars>>

\* the paths a caller may ask for: the files of the folders, there or not
CallerPaths == {join(f, n) : f \in Folders, n \in Volatile}

\* fm 6-12: the registry as constructed, nobody connected
RegistryInit ==
  /\ clients = [c \in Conns |-> [registered |-> FALSE, authenticated |-> FALSE]]
  /\ readyState = [c \in Conns |-> "new"]
  /\ authToken = 1
  /\ pm = EmptySession
  /\ fm = [currentFolder |-> NoFolder, files |-> <<>>, currentFileIndex |-> -1,
           watcher |-> FALSE]
  /\ app = [d \in Drivers |-> 0]
  /\ handlers = [h \in Handlers |-> Idle]
  /\ sent = NoSent
  /\ calls = <<>>
  /\ chunk = 0
  /\ nmsgs = 0
  /\ selection = [selectedFolder |-> NoFolder, folderPath |-> NoFolder, pc |-> "idle"]
  /\ disk = StartDisk
  /\ fsChanges = 0
  /\ scans = <<>>
  /\ watch = NoWatch
  /\ walk = NoWalk

RegistryNext ==
  \/ \E f \in Folders : FmSetFolder(f)
  \/ FmWatcherClosed
  \/ \E i \in 1..MaxScans : FmReaddirDone(i)
  \/ \E i \in 1..MaxScans : FmStatDone(i)
  \/ FmClearFolder
  \/ WatchAdd
  \/ WatchUnlink
  \/ WatchChange
  \/ \E f \in Folders, n \in Volatile : FsAdd(f, n)
  \/ \E f \in Folders, n \in Volatile : FsRemove(f, n)
  \/ \E f \in Folders, n \in Volatile : FsModify(f, n)
  \/ \E p \in CallerPaths : FmSetCurrentFile(p)
  \/ \E i \in -1..MaxFiles : FmGetFileByIndex(i)
  \/ FmNextFile
  \/ FmPrevFile

RegistrySpec == RegistryInit /\ [][RegistryNext]_vars

\* ------------------------------------------------- the cursor on its own
\* nextFile and prevFile as functions of the list and the cursor: every list
\* of 1..MaxFiles files of one folder, with every value the cursor can have on
\* it (a rescan that shortens the list leaves the cursor where it was, so the
\* cursor can lie beyond the end).
CursorLists ==
  {sortByName([k \in 1..Cardinality(S) |-> Entry(join(Folder, readdir(S)[k]))]) :
     S \in {T \in SUBSET {n \in Names : Matches(n)} : Cardinality(T) \in 1..MaxFiles}}

CursorInit ==
  /\ clients = [c \in Conns |-> [registered |-> FALSE, authenticated |-> FALSE]]
  /\ readyState = [c \in Conns |-> "new"]
  /\ authToken = 1
  /\ pm = EmptySession
  /\ \E files \in CursorLists, index \in -1..(MaxFiles - 1) :
       /\ fm = [currentFolder |-> Folder, files |-> files, currentFileIndex |-> index,
                watcher |-> TRUE]
       /\ walk = [from |-> index, steps |-> 0]
  /\ app = [d \in Drivers |-> 0]
  /\ handlers = [h \in Handlers |-> Idle]
  /\ sent = NoSent
  /\ calls = <<>>
  /\ chunk = 0
  /\ nmsgs = 0
  /\ selection = [selectedFolder |-> Folder, folderPath |-> NoFolder, pc |-> "idle"]
  /\ disk = StartDisk
  /\ fsChanges = 0
  /\ scans = <<>>
  /\ watch = [live |-> TRUE, pending |-> <<>>]

\* one more nextFile of a series of at most as many calls as the list is long
WalkNext ==
  /\ walk.steps < Len(fm.files)
  /\ fm' = nextFile(fm)
  /\ walk' = [walk EXCEPT !.steps = @ + 1]
  /\ UNCHANGED <<serverVars, selection, disk, fsChanges, scans, watch>>

\* a prevFile, after which a new series starts from where the cursor is
WalkPrev ==
  /\ fm' = prevFile(fm)
  /\ walk' = [from |-> fm'.currentFileIndex, steps |-> 0]
  /\ UNCHANGED <<serverVars, selection, disk, fsChanges, scans, watch>>

CursorNext == WalkNext \/ WalkPrev

CursorSpec == CursorInit /\ [][CursorNext]_vars

\* ------------------------------------------------------- fair scheduling
\* The commands of the authenticated client while its connection may be lost.
\* Every driver call is an execSync with a 10 s timeout (339-344, 672-677) and
\* so returns or fails inside the step that makes it; the microtask queue and
\* the I/O pool run every continuation that is ready.
Resumption(h) ==
  \/ \E ok \in BOOLEAN : OpenStatDone(h, ok)
  \/ OpenInstall(h) \/ (\E ok \in BOOLEAN : Upd1(h, ok)) \/ Upd2(h)
  \/ StartCont(h) \/ StopCont(h) \/ CloseCont(h) \/ NavCont(h)
  \/ Reply(h) \/ BcastPoll(h) \/ BcastSend(h)
  \/ StatusPoll(h) \/ StatusSend(h) \/ ListSend(h) \/ ErrReply(h)

LiveNext ==
  \/ \E c \in Conns, m \in Messages, ok \in BOOLEAN : OnMessage(c, m, ok)
  \/ \E h \in Handlers : Resumption(h)
  \/ \E c \in Conns : PeerClosing(c)
  \/ \E c \in Conns : CloseEvent(c)

LiveSpec == FolderInit /\ [][LiveNext]_vars /\ \A h \in Handlers : WF_vars(Resumption(h))

\* ------------------------------- file navigation of the session (pm 224-247)
\* openNextFile, openPrevFile and openFileByIndex, called by the application
\* itself (no command of the protocol reaches them).  Each moves the cursor
\* through the registry and either returns its failure object at once or calls
\* openFile with the entry's path; the caller's record is kept in the first
\* handler slot: pc "returned" with the failure's message, or pc "openStat",
\* the first await of openFile (pm 26), whose continuation is modelled by
\* OpenStatDone and the steps after it.
NoEntry == [name |-> "null"]

\* files[i] of JavaScript: undefined beyond the end of the array
At(files, i) == IF i >= 0 /\ i < Len(files) THEN files[i + 1] ELSE NoEntry

\* what nextFile, prevFile and getFileByIndex return (fm 146-149, 153-158, 162-166)
nextFileResult(f) ==
  IF Len(f.files) = 0 THEN NoEntry ELSE At(f.files, nextFile(f).currentFileIndex)
prevFileResult(f) ==
  IF Len(f.files) = 0 THEN NoEntry ELSE At(f.files, prevFile(f).currentFileIndex)
getFileByIndexResult(f, index) ==
  IF index >= 0 /\ index < Len(f.files) THEN At(f.files, index) ELSE NoEntry

Failure(message) == [Idle EXCEPT !.pc = "returned", !.ok = FALSE, !.err = message]
CallsOpenFile(file) == [Idle EXCEPT !.pc = "openStat", !.type = "openFile", !.path = file.path]

\* pm 225-231
openNextFile ==
  /\ handlers[1] = Idle
  /\ fm' = nextFile(fm)
  /\ LET nextFile_ == nextFileResult(fm)
     IN handlers' = [handlers EXCEPT ![1] = IF nextFile_ # NoEntry THEN CallsOpenFile(nextFile_)
                                            ELSE Failure("No next file available")]
  /\ UNCHANGED <<clients, readyState, authToken, pm, app, sent, calls, chunk, nmsgs,
                 selection, registryVars>>

\* pm 233-239
openPrevFile ==
  /\ handlers[1] = Idle
  /\ fm' = prevFile(fm)
  /\ LET prevFile_ == prevFileResult(fm)
     IN handlers' = [handlers EXCEPT ![1] = IF prevFile_ # NoEntry THEN CallsOpenFile(prevFile_)
                                            ELSE Failure("No previous file available")]
  /\ UNCHANGED <<clients, readyState, authToken, pm, app, sent, calls, chunk, nmsgs,
                 selection, registryVars>>

\* pm 241-247
openFileByIndex(index) ==
  /\ handlers[1] = Idle
  /\ fm' = getFileByIndex(fm, index)
  /\ LET file == getFileByIndexResult(fm, index)
     IN handlers' = [handlers EXCEPT ![1] = IF file # NoEntry THEN CallsOpenFile(file)
                                            ELSE Failure("Invalid file index")]
  /\ UNCHANGED <<clients, readyState, authToken, pm, app, sent, calls, chunk, nmsgs,
                 selection, registryVars>>

\* the caller has taken what the call returned
NavigationReturns ==
  /\ handlers[1].pc = "returned"
  /\ handlers' = [handlers EXCEPT ![1] = Idle]
  /\ UNCHANGED <<clients, readyState, authToken, pm, fm, app, sent, calls, chunk, nmsgs,
                 selection, registryVars>>

\* the indices a caller may pass
CallerIndices == -2..(MaxFiles + 1)

\* every list of at most MaxFiles files of the folder, the empty one included,
\* with every value the cursor can have, with and without a file open
NavigationInit ==
  /\ clients = [c \in Conns |-> [registered |-> FALSE, authenticated |-> FALSE]]
  /\ readyState = [c \in Conns |-> "new"]
  /\ authToken = 1
  /\ \E open \in BOOLEAN :
       /\ pm = IF open THEN InstallSession(EmptySession, "keynote", "a.key") ELSE EmptySession
       /\ app = [d \in Drivers |-> IF open /\ d = "keynote" THEN 1 ELSE 0]
  /\ \E files \in CursorLists \cup {<<>>}, index \in -1..(MaxFiles - 1) :
       fm = [currentFolder |-> Folder, files |-> files, currentFileIndex |-> index,
             watcher |-> TRUE]
  /\ handlers = [h \in Handlers |-> Idle]
  /\ sent = NoSent
  /\ calls = <<>>
  /\ chunk = 0
  /\ nmsgs = 0
  /\ selection = [selectedFolder |-> Folder, folderPath |-> NoFolder, pc |-> "idle"]
  /\ disk = StartDisk
  /\ fsChanges = 0
  /\ scans = <<>>
  /\ watch = [live |-> TRUE, pending |-> <<>>]
  /\ walk = NoWalk

NavigationNext ==
  \/ openNextFile
  \/ openPrevFile
  \/ \E index \in CallerIndices : openFileByIndex(index)
  \/ NavigationReturns

NavigationSpec == NavigationInit /\ [][NavigationNext]_vars

\* ------------------------------------------------------------- properties
\* a step of the suspended handler h
HandlerStep(h) ==
  /\ Busy(h)
  /\ nmsgs' = nmsgs
  /\ \/ \E ok \in BOOLEAN : OpenStatDone(h, ok)
     \/ OpenInstall(h) \/ (\E ok \in BOOLEAN : Upd1(h, ok)) \/ Upd2(h)
     \/ StartCont(h) \/ StopCont(h) \/ CloseCont(h) \/ NavCont(h)
     \/ Reply(h) \/ BcastPoll(h) \/ BcastSend(h)
     \/ StatusPoll(h) \/ StatusSend(h) \/ ListSend(h) \/ ErrReply(h)

\* connection c receives message m
Receives(c, m) == nmsgs' = nmsgs + 1 /\ \E ok \in BOOLEAN : OnMessage(c, m, ok)

AuthRequired == [type |-> "error", prefix |-> "", message |-> "Authentication required"]
AuthResult(b) == [type |-> "authResult", success |-> b]
Only(c, msg) == [NoSent EXCEPT ![c] = <<msg>>]
IsAuthenticated(c) == clients[c].registered /\ clients[c].authenticated

\* C1: a message other than auth that arrives on a registered connection
\* which has not authenticated is answered with the error 'Authentication
\* required' ('Invalid JSON format' when it cannot be parsed, so has no type)
\* and nothing else happens: no driver operation, no change of the registry,
\* the session, the connection table or the target applications, no handler
\* left behind.
C1_AuthGate ==
  [][\A c \in Conns, m \in Messages :
       ( /\ m.type # "auth"
         /\ clients[c].registered
         /\ ~clients[c].authenticated
         /\ Receives(c, m) )
       => /\ sent' = Only(c, IF m.type = "malformed"
                             THEN [AuthRequired EXCEPT !.message = "Invalid JSON format"]
                             ELSE AuthRequired)
          /\ calls' = <<>>
          /\ pm' = pm /\ fm' = fm /\ app' = app
          /\ clients' = clients
          /\ handlers' = handlers]_vars

\* C1 witness: a session is open and an unauthenticated connection has just
\* been refused
C1_Witness ==
  \E c \in Conns :
    /\ clients[c].registered /\ ~clients[c].authenticated
    /\ sent[c] = <<AuthRequired>>
    /\ pm.currentDriver # NoDriver

\* C2: a token rotation empties the connection registry and leaves no
\* previously authenticated connection with an open socket; and an auth
\* message is accepted only when it carries the token that is current when it
\* arrives, so the replaced token is refused from then on.
C2_TokenRotation ==
  [][ /\ authToken' # authToken =>
           \A c \in Conns :
             /\ ~clients'[c].registered
             /\ IsAuthenticated(c) => readyState'[c] # "open"
      /\ \A c \in Conns, t \in Tokens :
           (Receives(c, Msg("auth", t, NoPath)) /\ sent'[c] = <<AuthResult(TRUE)>>)
           => t = authToken ]_vars

\* C2 witness: after a rotation that closed a connection, an auth on a new
\* connection has just been refused
C2_Witness ==
  \E c, b \in Conns :
    /\ authToken # 1
    /\ readyState[b] = "closing" /\ ~clients[b].registered
    /\ clients[c].registered /\ ~clients[c].authenticated
    /\ sent[c] = <<AuthResult(FALSE)>>

\* C3 (as claimed): a handler whose connection a token rotation has
\* disconnected invokes no driver operation and changes neither the session
\* nor the registry.
C3_NoEffectAfterRotation ==
  [][\A h \in Handlers :
       ( /\ Busy(h)
         /\ ~clients[handlers[h].conn].registered
         /\ readyState[handlers[h].conn] = "closing"
         /\ HandlerStep(h) )
       => calls' = <<>> /\ pm' = pm /\ fm' = fm]_vars

C5_WrongToken ==
  [][\A c \in Conns :
       clients[c].registered =>
         /\ \A t \in Tokens :
              Receives(c, Msg("auth", t, NoPath)) =>
                IF t # authToken
                THEN /\ sent' = Only(c, AuthResult(FALSE))
                     /\ clients' = clients /\ readyState' = readyState
                     /\ handlers' = handlers /\ calls' = <<>>
                ELSE /\ clients'[c].authenticated
                     /\ sent' = Only(c, AuthResult(TRUE))
         /\ (~clients[c].authenticated /\ Receives(c, Msg("status", 0, NoPath)))
              => sent' = Only(c, AuthRequired)]_vars

\* C5 witness: an unauthenticated connection has just been told that its
\* token failed; it is still registered and open
C5_Witness ==
  \E c \in Conns :
    /\ clients[c].registered /\ ~clients[c].authenticated
    /\ readyState[c] = "open"
    /\ sent[c] = <<AuthResult(FALSE)>>

\* C6 (as claimed): an auth with the current token authenticates the
\* connection and sends authResult success=true, and until the status that
\* follows it has been sent nothing else is sent to that connection except
\* on behalf of a message that arrived before the auth.
C6_AuthThenStatus ==
  [][ /\ \A c \in Conns :
           (clients[c].registered /\ Receives(c, Msg("auth", authToken, NoPath)))
           => clients'[c].authenticated /\ sent' = Only(c, AuthResult(TRUE))
      /\ \A h \in Handlers :
           (handlers[h].type = "auth" /\ sent'[handlers[h].conn] # <<>>)
           => \/ StatusSend(h) /\ sent' = Only(handlers[h].conn, handlers[h].snap)
              \/ \E g \in Handlers : g < h /\ HandlerStep(g) ]_vars

\* C7: a session command that succeeded goes on to the broadcast; from the
\* moment it has succeeded until the broadcast no connection stops being
\* authenticated and open; and the broadcast delivers one status message to
\* every connection that is authenticated and open.
C7_BroadcastToAll ==
  [][\A h \in Handlers :
       /\ ( (OpenInstall(h) \/ StartCont(h) \/ StopCont(h) \/ CloseCont(h) \/ NavCont(h))
            /\ handlers[h].ok )
          => handlers'[h].pc \in {"upd1", "reply"}
       /\ (\E ok \in BOOLEAN : Upd1(h, ok)) => handlers'[h].pc \in {"upd2", "reply"}
       /\ Upd2(h) => handlers'[h].pc = "reply"
       /\ Reply(h) => handlers'[h].pc \in {"bcastPoll", "bcastSend"}
       /\ BcastPoll(h) => handlers'[h].pc = "bcastSend"
       /\ handlers[h].pc \in {"upd1", "upd2", "reply", "bcastPoll", "bcastSend"}
          => \A c \in Conns :
               (IsAuthenticated(c) /\ readyState[c] = "open")
               => (IsAuthenticated(c)' /\ readyState'[c] = "open")
       /\ BcastSend(h)
          => /\ handlers[h].snap.type = "status"
             /\ \A c \in Conns :
                  (IsAuthenticated(c) /\ readyState[c] = "open")
                  => sent'[c] = <<handlers[h].snap>>]_vars

\* C7 witness: two authenticated connections have both just received the
\* same status, which says that the presentation is running
C7_Witness ==
  \E a, b \in Conns :
    /\ a # b
    /\ IsAuthenticated(a) /\ IsAuthenticated(b)
    /\ Len(sent[a]) = 1 /\ sent[b] = sent[a]
    /\ sent[a][1].type = "status"
    /\ sent[a][1].isPresenting

\* C8 (as claimed): once a command has returned (its cache refresh done) and
\* until the snapshot for its broadcast is complete, no step of a command
\* that arrived later changes the session.
C8_BroadcastReflectsCommand ==
  [][\A h, g \in Handlers :
       (h < g /\ handlers[h].pc \in {"reply", "bcastPoll"} /\ HandlerStep(g))
       => pm' = pm]_vars

\* C9 (as claimed): while a session command is between its first driver call
\* and the end of its cache refresh, no other handler invokes a driver
\* operation or writes a session field.
InCommand(h) ==
  handlers[h].pc \in {"openInstall", "upd1", "upd2", "startCont", "stopCont",
                      "closeCont", "navCont"}

C9_CommandSerialization ==
  [][\A h \in Handlers :
       InCommand(h) =>
         /\ \A g \in Handlers \ {h} : HandlerStep(g) => (calls' = <<>> /\ pm' = pm)
         /\ \A c \in Conns, m \in Messages : Receives(c, m) => calls' = <<>>]_vars

\* C10 (as claimed): when the active driver is unset, the active file is
\* unset and the presenting flag is false.
C10_SessionInvariant ==
  pm.currentDriver = NoDriver => (pm.currentFile = NoFile /\ ~pm.isPresenting)

\* C11: an openFile that fails (the path is not a file on disk, it is not in
\* the registry, its type has no driver, or the driver reports failure) writes
\* no session field at any of its steps, and it ends as a result: the handler
\* goes on to send fileOpened with success=false, never to the error reply.
FileOpened(me, ok) == [type |-> "fileOpened", success |-> ok, filePath |-> me.path]

C11_FailedOpenKeepsSession ==
  [][\A h \in Handlers :
       /\ (\E ok \in BOOLEAN : OpenStatDone(h, ok))
          => /\ pm' = pm
             /\ \/ handlers'[h].pc = "openInstall"
                \/ handlers'[h].pc = "reply" /\ ~handlers'[h].ok
       /\ (OpenInstall(h) /\ ~handlers[h].ok)
          => /\ pm' = pm
             /\ handlers'[h].pc = "reply" /\ ~handlers'[h].ok
       /\ (Reply(h) /\ handlers[h].type = "openFile" /\ ~handlers[h].ok)
          => /\ pm' = pm
             /\ sent'[handlers[h].conn] \in {<<>>, <<FileOpened(handlers[h], FALSE)>>}]_vars

\* C11 witness: a session is open on one file and the issuer has just been
\* told that opening another file, which is on disk and in the registry,
\* failed (the driver reported the failure)
C11_Witness ==
  \E c \in Conns :
    /\ sent[c] = <<[type |-> "fileOpened", success |-> FALSE, filePath |-> "b.pptx"]>>
    /\ pm.currentFile = "a.key"
    /\ pm.currentDriver = "keynote"

\* the positions of a handler before, at and after its direct response
BeforeResponse == {"openStat", "openInstall", "upd1", "upd2", "startCont", "stopCont",
                   "closeCont", "navCont", "statusPoll"}
AtResponse == {"reply", "statusSend", "listSend", "errReply"}
AfterResponse == {"bcastPoll", "bcastSend"}
InFlight == Cardinality({h \in Handlers : Busy(h)})
IsOpen(c) == clients[c].registered /\ readyState[c] = "open"

\* One direct response per message.  The message is answered at once and
\* leaves no handler behind (an accepted auth leaves the handler of its status
\* push), or it is answered by its handler, which sends nothing before its
\* response, sends the response in one step, and afterwards sends only the
\* status broadcast.  whenClosed is what the issuer gets at the response step
\* when its connection is no longer registered and open.
OneResponse(whenClosed) ==
  /\ \A c \in Conns, m \in Messages :
       (IsOpen(c) /\ Receives(c, m)) =>
         \/ /\ Len(sent'[c]) = 1
            /\ sent'[c][1].type \in {"pong", "authResult", "error"}
            /\ \A b \in Conns \ {c} : sent'[b] = <<>>
            /\ \/ handlers' = handlers
               \/ /\ m.type = "auth"
                  /\ handlers' = [handlers EXCEPT ![FreeSlot] = handlers'[FreeSlot]]
                  /\ handlers'[FreeSlot].type = "auth"
                  /\ handlers'[FreeSlot].pc \in {"statusPoll", "statusSend"}
         \/ /\ sent' = NoSent
            /\ m.type # "auth"
            /\ handlers' = [handlers EXCEPT ![FreeSlot] = handlers'[FreeSlot]]
            /\ handlers'[FreeSlot].conn = c
            /\ handlers'[FreeSlot].pc \in BeforeResponse \cup AtResponse
  /\ \A h \in Handlers :
       HandlerStep(h) =>
         /\ handlers[h].pc \in BeforeResponse =>
              /\ sent' = NoSent
              /\ handlers'[h].conn = handlers[h].conn
              /\ handlers'[h].pc \in BeforeResponse \cup AtResponse
              /\ InFlight' = InFlight
         /\ handlers[h].pc \in AtResponse =>
              /\ \A b \in Conns \ {handlers[h].conn} : sent'[b] = <<>>
              /\ Len(sent'[handlers[h].conn])
                   = IF IsOpen(handlers[h].conn) THEN 1 ELSE whenClosed
              /\ IF handlers[h].pc = "reply"
                 THEN /\ handlers'[h].conn = handlers[h].conn
                      /\ handlers'[h].pc \in AfterResponse
                      /\ InFlight' = InFlight
                 ELSE InFlight' = InFlight - 1
         /\ handlers[h].pc \in AfterResponse =>
              /\ \A b \in Conns :
                   /\ Len(sent'[b]) <= 1
                   /\ \A i \in 1..Len(sent'[b]) : sent'[b][i].type = "status"
              /\ IF handlers[h].pc = "bcastPoll"
                 THEN handlers'[h].pc = "bcastSend" /\ InFlight' = InFlight
                 ELSE InFlight' = InFlight - 1

\* C12 (as claimed): every message received on a registered, open connection
\* produces exactly one direct response to its issuer, never zero and never
\* two, whatever happens to the connection meanwhile.
C12_ExactlyOneResponse == [][OneResponse(1)]_vars

\* C12 (amended): every message received on a registered, open connection
\* produces exactly one direct response to its issuer if the connection is
\* still registered and open when the response is due, and none if it is not;
\* never two.
C12_OneResponseWhileOpen == [][OneResponse(0)]_vars

\* C12 witness: a command's direct response has just been delivered and its
\* handler is on its way to the broadcast
C12_Witness ==
  \E h \in Handlers :
    /\ handlers[h].pc \in AfterResponse
    /\ IsOpen(handlers[h].conn)
    /\ sent[handlers[h].conn] = <<DirectResponse(handlers[h])>>

\* C13: with no session, start, stop, close, next and prev invoke no driver
\* operation and change nothing; the handler goes to the catch with the
\* guard's message ('No presentation is currently open' for next), and the
\* error reply that follows is sent to the issuer alone: there is no broadcast.
C13_NoSessionError ==
  [][ /\ \A c \in Conns, m \in Messages :
           ( /\ m.type \in {"start", "stop", "close", "next", "prev"}
             /\ IsAuthenticated(c)
             /\ pm.currentDriver = NoDriver
             /\ Receives(c, m) )
           => /\ calls' = <<>> /\ sent' = NoSent
              /\ pm' = pm /\ fm' = fm /\ app' = app /\ clients' = clients
              /\ handlers'[FreeSlot].conn = c
              /\ handlers'[FreeSlot].pc = "errReply"
              /\ handlers'[FreeSlot].err =
                   CASE m.type = "start" -> "No presentation file is currently open"
                     [] m.type = "stop" -> "No presentation is currently active"
                     [] OTHER -> "No presentation is currently open"
      /\ \A h \in Handlers :
           ErrReply(h)
           => /\ calls' = <<>>
              /\ pm' = pm /\ fm' = fm /\ app' = app
              /\ \A b \in Conns :
                   sent'[b] = IF b = handlers[h].conn /\ IsOpen(b)
                              THEN <<[type |-> "error", prefix |-> "Command failed: ",
                                      message |-> handlers[h].err]>>
                              ELSE <<>> ]_vars

\* C13 witness: with two authenticated connections and no session, the issuer
\* of a next has just received its error and the other connection nothing
C13_Witness ==
  \E c, b \in Conns :
    /\ b # c /\ IsAuthenticated(b) /\ IsOpen(b) /\ sent[b] = <<>>
    /\ pm = EmptySession
    /\ sent[c] = <<[type |-> "error", prefix |-> "Command failed: ",
                    message |-> "No presentation is currently open"]>>

\* C14 (as claimed): when closePresentation has succeeded the session is
\* completely empty: no driver, no file, not presenting, cached slide index 0,
\* cached slide count 0 and cached notes the empty string.
C14_CloseEmptiesSession ==
  [][\A h \in Handlers :
       (CloseCont(h) /\ handlers[h].ok) => pm' = EmptySession]_vars

\* C15 (as claimed): whenever the watched folder changes, the session is
\* empty afterwards: no driver, no file, not presenting, cached slide index,
\* slide count and notes cleared.
C15_FolderChangeResetsSession ==
  [][fm'.currentFolder # fm.currentFolder => pm' = EmptySession]_vars

\* C16 (as claimed): when the session has an active file, the registry list
\* has an entry with that file's path.
C16_ActiveFileInRegistry ==
  pm.currentFile # NoFile => findIndex(fm.files, pm.currentFile) >= 0

\* C17 (as claimed): a status snapshot that is sent with a non-null
\* currentFile carries as index the position of that file in the registry
\* list.
C17_StatusIndexIsPosition ==
  [][\A h \in Handlers :
       ( /\ StatusSend(h) \/ BcastSend(h)
         /\ handlers[h].snap.currentFile # NoFile )
       => handlers[h].snap.index = findIndex(fm.files, handlers[h].snap.currentFile)]_vars

\* what getStatus returns in the current state when nothing interleaves with it
Snapshot ==
  StatusOf(pm, fm.currentFolder, pm.currentFile, CapturedIndex, Len(fm.files),
           IF pm.currentDriver = "powerpoint" /\ pm.isPresenting
           THEN getCurrentSlideInfo(app, "powerpoint") ELSE NoInfo)

\* C18: getStatus is a pure read.  No step of it (started by a status
\* message, by the status push after auth or by a broadcast) writes a session
\* or registry field or changes the target application; a status request
\* answered without interleaving returns the snapshot the state determines;
\* and status requests that are in flight together with nothing else hold
\* identical snapshots.
C18_StatusIsPureRead ==
  /\ [][ /\ \A c \in Conns :
              (IsAuthenticated(c) /\ Receives(c, Msg("status", 0, NoPath)))
              => /\ pm' = pm /\ fm' = fm /\ app' = app /\ clients' = clients
                 /\ handlers'[FreeSlot].pc = "statusSend"
                    => handlers'[FreeSlot].snap = Snapshot
         /\ \A h \in Handlers :
              ( /\ Busy(h)
                /\ Reply(h) \/ StatusPoll(h) \/ StatusSend(h) \/ BcastPoll(h) \/ BcastSend(h) )
              => /\ pm' = pm /\ fm' = fm /\ app' = app /\ clients' = clients
                 /\ ( /\ StatusPoll(h)
                      /\ handlers[h].cf = pm.currentFile
                      /\ handlers[h].idx = CapturedIndex
                      /\ handlers[h].count = Len(fm.files)
                      /\ handlers[h].info = getCurrentSlideInfo(app, "powerpoint")
                      /\ pm.currentDriver = "powerpoint" /\ pm.isPresenting )
                    => handlers'[h].snap = Snapshot ]_vars
  /\ [](\A g, h \in Handlers :
          ( /\ \A k \in Handlers : Busy(k) => handlers[k].type = "status"
            /\ handlers[g].pc = "statusSend" /\ handlers[h].pc = "statusSend" )
          => handlers[g].snap = handlers[h].snap)

\* C18 witness: with a session open, two status requests are in flight and
\* hold the same snapshot
C18_Witness ==
  \E g, h \in Handlers :
    /\ g # h
    /\ handlers[g].type = "status" /\ handlers[h].type = "status"
    /\ handlers[g].pc = "statusSend" /\ handlers[h].pc = "statusSend"
    /\ handlers[g].snap = handlers[h].snap
    /\ handlers[g].snap.currentFile # NoFile

\* C19 (as claimed): getStatus polls the driver for the live slide position
\* exactly when there is an active driver with getCurrentSlideInfo (both
\* variants have it) and the presenting flag is true; otherwise it makes no
\* driver call.
C19_LivePollWhenCapable ==
  [][\A c \in Conns :
       (IsAuthenticated(c) /\ Receives(c, Msg("status", 0, NoPath)))
       => IF pm.currentDriver \in Drivers /\ pm.isPresenting
          THEN calls' = <<[driver |-> pm.currentDriver, op |-> "getCurrentSlideInfo"]>>
          ELSE calls' = <<>>]_vars

\* C20 (as claimed): when an open, start, stop, next or prev has succeeded,
\* the cache is refreshed: the driver of the session is asked for the slide
\* position, and the refresh stores the position and then the notes the driver
\* reported.
C20_CacheRefreshed ==
  [][\A h \in Handlers :
       /\ ( /\ OpenInstall(h) \/ StartCont(h) \/ StopCont(h) \/ NavCont(h)
            /\ handlers[h].ok
            /\ pm'.currentDriver # NoDriver )
          => /\ calls' = <<[driver |-> pm'.currentDriver, op |-> "getCurrentSlideInfo"]>>
             /\ handlers'[h].pc = "upd1"
       /\ (\E ok \in BOOLEAN : Upd1(h, ok))
          => /\ pm'.currentSlideIndex = handlers[h].info.currentSlide - 1
             /\ pm'.totalSlides = handlers[h].info.totalSlides
       /\ Upd2(h) => pm'.slideNotes = handlers[h].notes]_vars

\* C21: when the driver raises during start, stop, close, next or prev on an
\* active session, the command writes no session field at any of its steps
\* (driver, file, presenting flag, cached index, count and notes stay as they
\* were) and leaves the target application alone, it sends nothing until its
\* handler reaches the catch, and there the issuer alone is sent the error:
\* no commandResult and no status broadcast.
DriverError(text) == [type |-> "error", prefix |-> "Command failed: ", message |-> text]

C21_DriverFailureKeepsSession ==
  [][ /\ \A c \in Conns, m \in Messages :
           ( /\ m.type \in {"start", "stop", "close", "next", "prev"}
             /\ IsAuthenticated(c)
             /\ pm.currentDriver # NoDriver /\ pm.currentFile # NoFile
             /\ nmsgs' = nmsgs + 1
             /\ OnMessage(c, m, FALSE) )
           => /\ pm' = pm /\ app' = app /\ sent' = NoSent
              /\ handlers'[FreeSlot].conn = c
              /\ handlers'[FreeSlot].pc \in {"startCont", "stopCont", "closeCont", "navCont"}
              /\ ~handlers'[FreeSlot].ok
      /\ \A h \in Handlers :
           /\ ( /\ handlers[h].pc \in {"startCont", "stopCont", "closeCont", "navCont"}
                /\ ~handlers[h].ok
                /\ HandlerStep(h) )
              => /\ pm' = pm /\ app' = app /\ sent' = NoSent /\ calls' = <<>>
                 /\ handlers'[h].pc = "errReply"
                 /\ handlers'[h].conn = handlers[h].conn
                 /\ handlers'[h].err \in {"Failed to start presentation",
                                          "Failed to stop presentation",
                                          "Failed to close presentation",
                                          "Failed to go to slide"}
           /\ (handlers[h].pc = "errReply" /\ HandlerStep(h))
              => /\ pm' = pm /\ app' = app /\ calls' = <<>>
                 /\ InFlight' = InFlight - 1
                 /\ \A b \in Conns :
                      sent'[b] = IF b = handlers[h].conn /\ IsOpen(b)
                                 THEN <<DriverError(handlers[h].err)>>
                                 ELSE <<>> ]_vars

\* C21 witness: a file is open with its slides and notes cached, the issuer
\* of a close has just been sent the driver's error and the other
\* authenticated connection nothing
C21_Witness ==
  \E c, b \in Conns :
    /\ b # c /\ IsAuthenticated(b) /\ IsOpen(b) /\ sent[b] = <<>>
    /\ pm.currentDriver # NoDriver /\ pm.currentFile # NoFile
    /\ pm.totalSlides = MaxSlides /\ pm.slideNotes # NoNotes
    /\ sent[c] = <<DriverError("Failed to close presentation")>>

\* C22: when the notes script fails during the cache refresh of a next or
\* prev that succeeded, the refresh has stored the slide position and count
\* the driver reported, the cached notes become the empty string, and the
\* command goes on to its response: the issuer is sent commandResult with
\* success=true, and the status prepared next, with the cached notes still
\* as that refresh left them, carries empty notes and the slide position and
\* count of the presentation.
C22_NotesFailureSwallowed ==
  [][\A h \in Handlers :
       handlers[h].type \in {"next", "prev"} =>
         /\ (pm.currentDriver # NoDriver /\ Upd1(h, FALSE))
            => /\ pm'.currentSlideIndex = handlers[h].info.currentSlide - 1
               /\ pm'.totalSlides = handlers[h].info.totalSlides
               /\ handlers'[h].pc = "upd2"
               /\ handlers'[h].notes = NoNotes
         /\ (handlers[h].pc = "upd2" /\ handlers[h].notes = NoNotes /\ HandlerStep(h))
            => /\ pm' = [pm EXCEPT !.slideNotes = NoNotes]
               /\ handlers'[h].pc = "reply"
         /\ (handlers[h].pc = "reply" /\ handlers[h].notes = NoNotes /\ HandlerStep(h))
            => /\ IsOpen(handlers[h].conn)
                  => sent'[handlers[h].conn] =
                       <<[type |-> "commandResult", command |-> handlers[h].type,
                          success |-> TRUE]>>
               /\ ( /\ pm.currentDriver # NoDriver /\ pm.slideNotes = NoNotes
                    /\ handlers'[h].pc = "bcastSend" )
                  => /\ handlers'[h].snap.slideNotes = NoNotes
                     /\ handlers'[h].snap.currentSlide
                          = getCurrentSlideInfo(app, pm.currentDriver).currentSlide
                     /\ handlers'[h].snap.totalSlides
                          = getCurrentSlideInfo(app, pm.currentDriver).totalSlides]_vars

\* C22 witness: the presentation is at its second slide, whose notes could
\* not be read, and the client has just been sent a status with empty notes,
\* slide 2 and the slide count
C22_Witness ==
  /\ pm.currentDriver # NoDriver
  /\ app[pm.currentDriver] = 2
  /\ pm.slideNotes = NoNotes
  /\ Len(sent[1]) = 1
  /\ sent[1][1].type = "status"
  /\ sent[1][1].slideNotes = NoNotes
  /\ sent[1][1].currentSlide = 2
  /\ sent[1][1].totalSlides = MaxSlides

\* C23: when the driver has opened the file of an openFile(path), the active
\* file is the registry entry with that path (the entry the cursor designates),
\* the active driver is the variant of that entry's type tag, and the
\* presenting flag is false whatever it was; the session's driver is always
\* the variant of the active file's type; and the status the openFile goes on
\* to broadcast names that file, with driverType equal to its type and
\* isPresenting false.
C23_OpenInstallsSession ==
  /\ [][\A h \in Handlers :
          /\ (handlers[h].pc = "openInstall" /\ handlers[h].ok /\ HandlerStep(h))
             => /\ pm'.currentFile = handlers[h].path
                /\ fm'.currentFileIndex \in 0..(Len(fm'.files) - 1)
                /\ fm'.files[fm'.currentFileIndex + 1] = handlers[h].path
                /\ pm'.currentDriver = getFileType(extname(handlers[h].path))
                /\ pm'.currentDriver \in Drivers
                /\ ~pm'.isPresenting
          /\ ( /\ handlers[h].type = "openFile" /\ handlers[h].ok
               /\ handlers[h].pc = "reply" /\ HandlerStep(h) )
             => /\ handlers'[h].pc = "bcastSend"
                /\ handlers'[h].snap.currentFile = handlers[h].path
                /\ handlers'[h].snap.driverType = handlers'[h].snap.fileType
                /\ ~handlers'[h].snap.isPresenting]_vars
  /\ [](pm.currentFile # NoFile
          => pm.currentDriver = getFileType(extname(pm.currentFile)))

\* C23 witness: a Keynote document was opened before, the session is now on
\* the PowerPoint file, and the client has just been sent the status of the
\* broadcast that followed its fileOpened
C23_Witness ==
  /\ app["keynote"] # 0
  /\ pm.currentFile = "b.pptx" /\ pm.currentDriver = "powerpoint" /\ ~pm.isPresenting
  /\ Len(sent[1]) = 1
  /\ sent[1][1].type = "status"
  /\ sent[1][1].currentFile = "b.pptx"
  /\ sent[1][1].driverType = "powerpoint"

\* C24 (as claimed): on a list of N >= 1 files, N calls of nextFile bring the
\* cursor back to the value it had, whatever that value was, 'none' (-1)
\* included; and prevFile from index 0 gives index N-1.
C24_WalkReturnsFromAnywhere ==
  /\ [](walk.steps = Len(fm.files) => fm.currentFileIndex = walk.from)
  /\ [][(fm.currentFileIndex = 0 /\ WalkPrev)
         => fm'.currentFileIndex = Len(fm.files) - 1]_vars

\* C24 (amended): on a list of N >= 1 files, N calls of nextFile bring the
\* cursor back to the value it had when that value designated an entry of the
\* list (0..N-1); and prevFile from index 0 gives index N-1.
C24_WalkReturnsFromEntry ==
  /\ [](( /\ walk.steps = Len(fm.files)
          /\ walk.from \in 0..(Len(fm.files) - 1) )
        => fm.currentFileIndex = walk.from)
  /\ [][(fm.currentFileIndex = 0 /\ WalkPrev)
         => fm'.currentFileIndex = Len(fm.files) - 1]_vars

\* C24 witness: three calls on a list of three files, started at the middle
\* entry, have wrapped and are back there
C24_Witness ==
  /\ Len(fm.files) = 3
  /\ walk = [from |-> 1, steps |-> 3]
  /\ fm.currentFileIndex = 1

\* the list holds exactly the regular files of the folder whose lower-cased
\* extension is .key, .pptx or .ppt, each once, with its path in that folder
\* and its type tag, in the order of the names
IsListingOf(files, folder) ==
  /\ {files[k].name : k \in 1..Len(files)}
       = {n \in disk[folder] :
            isFile(n) /\ toLowerCase(pathExtname(n)) \in {".key", ".pptx", ".ppt"}}
  /\ \A k \in 1..Len(files) :
       /\ files[k].path = <<folder, files[k].name>>
       /\ files[k].type = IF toLowerCase(pathExtname(files[k].name)) = ".key"
                          THEN "keynote" ELSE "powerpoint"
  /\ \A j, k \in 1..Len(files) : j < k => NameRank(files[j].name) < NameRank(files[k].name)

\* scan i ends in this step
Completes(i) ==
  /\ i \in 1..Len(scans)
  /\ Len(scans') = Len(scans) - 1
  /\ FmReaddirDone(i) \/ FmStatDone(i)

\* C25 (as claimed): when a setFolder(path) completes (its scan has stored
\* its list), with the folder's contents as they were when the program
\* started and the registry not cleared meanwhile, the list is the listing
\* of that folder and the cursor is none.
C25_SetFolderListsFolder ==
  [][\A i \in 1..MaxScans :
       ( /\ Completes(i)
         /\ scans[i].cause = BySetFolder
         /\ fsChanges = 0
         /\ fm.currentFolder = selection.folderPath )
       => /\ IsListingOf(fm'.files, selection.folderPath)
          /\ fm'.currentFileIndex = -1]_vars

\* C26: in every state of the registry, whatever setFolder, clearFolder, watch
\* events and overlapping rescans have happened, the list is in the order of
\* the names and no two of its entries have the same path.
C26_SortedNoDuplicates ==
  /\ \A j, k \in 1..Len(fm.files) :
       j < k => NameRank(fm.files[j].name) <= NameRank(fm.files[k].name)
  /\ \A j, k \in 1..Len(fm.files) :
       j # k => fm.files[j].path # fm.files[k].path

\* C26 witness: a file was added to the watched folder, the rescan has
\* stored three entries, the upper-case name last, while another scan is still
\* in flight
C26_Witness ==
  /\ fsChanges = 1
  /\ scans # <<>>
  /\ Len(fm.files) = 3
  /\ fm.files[2].name = "b.pptx"
  /\ fm.files[3].name = "D.KEY"

\* the watcher's 'unlink' handler runs in this step for a supported file
HandlesUnlink ==
  /\ Emits("unlink")
  /\ watch' = [watch EXCEPT !.pending = Tail(@)]
  /\ Len(scans') = Len(scans) + 1

\* the cursor designates this path in the list
Designates(f, path) ==
  /\ f.currentFileIndex >= 0
  /\ f.currentFileIndex < Len(f.files)
  /\ f.files[f.currentFileIndex + 1].path = path

Designated(f) ==
  IF f.currentFileIndex >= 0 /\ f.currentFileIndex < Len(f.files)
  THEN f.files[f.currentFileIndex + 1].path
  ELSE <<>>

\* C28 (as claimed): a rescan started by the 'add', 'change' or 'unlink'
\* event of a file other than the one the cursor designates, which ends with
\* the designated file still in the list it stores, leaves the cursor
\* designating the same path.
C28_RescanKeepsDesignation ==
  [][\A i \in 1..MaxScans :
       ( /\ Completes(i)
         /\ scans[i].cause.kind \in {"add", "change", "unlink"}
         /\ Designated(fm) # <<>>
         /\ scans[i].cause.path # Designated(fm)
         /\ \E k \in 1..Len(fm'.files) : fm'.files[k].path = Designated(fm) )
       => Designated(fm') = Designated(fm)]_vars

\* the messages handleMessage rejects on an authenticated connection before
\* anything is done: an unknown type, and openFile without filePath
Rejected(type, path) == type = "bogus" \/ (type = "openFile" /\ path = NoPath)

\* the text of the error each of them raises
RejectionText(type) ==
  IF type = "openFile" THEN "filePath parameter required" ELSE "Unknown command: bogus"

\* the session, the registry, the token and the connections' state
SessionRegistryAuth == <<pm, fm, app, selection, authToken, clients, readyState>>

\* C29: on an authenticated connection, a payload that is not JSON is answered
\* at once with the error 'Invalid JSON format', sent to that connection only;
\* an unknown type and an openFile without filePath send nothing at once and
\* are answered, in the step in which the handler's catch runs, with the
\* error 'Command failed: ' followed by 'Unknown command: <type>' or
\* 'filePath parameter required', sent to that connection only.  Neither step
\* changes the session, the registry, the token or any connection's state or
\* invokes a driver, and the connection is open and authenticated afterwards.
C29_RejectedMessages ==
  /\ [][\A c \in Conns, m \in Messages :
          ( /\ IsAuthenticated(c)
            /\ m.type = "malformed" \/ Rejected(m.type, m.path)
            /\ Receives(c, m) )
          => /\ UNCHANGED SessionRegistryAuth
             /\ calls' = <<>>
             /\ sent' = IF m.type = "malformed"
                        THEN Only(c, ErrorMsg("", "Invalid JSON format"))
                        ELSE NoSent
             /\ m.type # "malformed" =>
                  \E h \in Handlers :
                    /\ ~Busy(h)
                    /\ handlers'[h].pc = "errReply"
                    /\ handlers'[h].conn = c
                    /\ handlers'[h].type = m.type]_vars
  /\ [][\A h \in Handlers :
          ( /\ handlers[h].pc = "errReply"
            /\ Rejected(handlers[h].type, handlers[h].path)
            /\ ErrReply(h) )
          => /\ UNCHANGED SessionRegistryAuth
             /\ calls' = <<>>
             /\ sent' = Only(handlers[h].conn,
                             ErrorMsg("Command failed: ", RejectionText(handlers[h].type)))
             /\ IsAuthenticated(handlers[h].conn)
             /\ readyState[handlers[h].conn] = "open"]_vars

\* C29 witness: a file is open, and the connection that opened it has just
\* been told that its command of an unknown type failed
C29_Witness ==
  \E c \in Conns :
    /\ sent[c] = <<ErrorMsg("Command failed: ", "Unknown command: bogus")>>
    /\ IsAuthenticated(c)
    /\ readyState[c] = "open"
    /\ pm.currentFile # NoFile

\* the messages that carry the session's or the registry's state
StateBearing == {"status", "fileList", "fileOpened", "commandResult", "folderChanged"}

\* C30: whatever a step writes to a connection that is not authenticated
\* (never authenticated, or no longer in the clients map), it is neither a
\* status, whether pushed by broadcastStatus or sent directly, nor a
\* folderChanged, fileList, fileOpened or commandResult message.
C30_NothingForUnauthenticated ==
  \A c \in Conns :
    ~IsAuthenticated(c) =>
      \A k \in 1..Len(sent[c]) : sent[c][k].type \notin StateBearing

\* C30 witness: a broadcast has just been delivered to the authenticated
\* connection while another connection is open and has not authenticated
C30_Witness ==
  \E c, d \in Conns :
    /\ IsAuthenticated(c)
    /\ \E k \in 1..Len(sent[c]) : sent[c][k].type = "folderChanged"
    /\ clients[d].registered /\ ~clients[d].authenticated /\ readyState[d] = "open"
    /\ sent[d] = <<>>

\* C31 (as claimed): in the step in which a command's handler broadcasts the
\* status, whether or not the send to one connection raises, at most one
\* authenticated open connection is left without the status, and the handler
\* ends there: it does not go on to the catch that sends the issuer an error
\* after the direct response it already has.
C31_BroadcastIsolation ==
  [][\A h \in Handlers :
       ( /\ handlers[h].pc = "bcastSend"
         /\ nmsgs' = nmsgs
         /\ BcastSend(h) \/ \E bad \in Conns : BcastSendRaises(h, bad) )
       => /\ Cardinality({c \in Conns : BroadcastTarget(c) /\ sent'[c] = <<>>}) <= 1
          /\ \A g \in Handlers :
               ~(handlers'[g].pc = "errReply" /\ handlers'[g].err = SendFailed)]_vars

\* C32: a heartbeat tick removes from the clients map every registered
\* connection whose socket is not OPEN, keeps every registered connection
\* whose socket is OPEN with its entry as it was, registers nothing, and so
\* changes the authenticated flag of no connection that stays.
C32_HeartbeatPrunes ==
  [][setupPingInterval =>
       \A c \in Conns :
         /\ (clients[c].registered /\ readyState[c] # "open") => ~clients'[c].registered
         /\ (clients[c].registered /\ readyState[c] = "open") => clients'[c] = clients[c]
         /\ ~clients[c].registered => ~clients'[c].registered
         /\ readyState'[c] = readyState[c]]_vars

\* C32 witness: a tick has removed an authenticated connection whose socket
\* had left OPEN and whose 'close' event has not come yet, while the other
\* connection is open and still authenticated, and a command of the removed
\* connection is still waiting for its stat
C32_Witness ==
  \E c, d \in Conns :
    /\ ~clients[c].registered /\ readyState[c] = "closing"
    /\ IsAuthenticated(d) /\ readyState[d] = "open"
    /\ \E h \in Handlers : handlers[h].conn = c /\ handlers[h].pc = "openStat"

\* C33 (as claimed): the step that clears the folder leaves the list empty,
\* the cursor none and no watcher kept or emitting; and while no folder is set
\* and no scan of a setFolder is in flight, every step leaves them so, the
\* steps of rescans that watch events had started before the clear included.
C33_ClearedStaysEmpty ==
  [][( /\ fm'.currentFolder = NoFolder
       /\ \A i \in 1..Len(scans) : scans[i].cause # BySetFolder
       /\ fm.currentFolder = NoFolder => (fm.files = <<>> /\ fm.currentFileIndex = -1) )
     => /\ fm'.files = <<>>
        /\ fm'.currentFileIndex = -1
        /\ ~fm'.watcher
        /\ ~watch'.live]_vars

\* scan i fails in this step: the stat it waited for finds its file gone, or
\* the next path.join meets a folder that has been cleared
Fails(i) ==
  /\ Completes(i)
  /\ \/ scans[i].pc = "stat" /\ scans[i].path[2] \notin disk[scans[i].path[1]]
     \/ scans[i].pc = "stat" /\ scans[i].todo # <<>> /\ fm.currentFolder = NoFolder
     \/ scans[i].pc = "readdir" /\ fm.currentFolder = NoFolder
           /\ SelectSeq(readdir(disk[scans[i].dir]), Matches) # <<>>

NavigationCall == handlers[1] = Idle /\ handlers'[1] # Idle

\* C35: a call of openNextFile or openPrevFile on an empty list, and a call
\* of openFileByIndex with an index below 0 or not below the length of the
\* list, returns its failure object (success false) instead of calling
\* openFile, invokes no driver operation and leaves the cursor, the list and
\* the session as they were.
C35_NavigationMisses ==
  [][\A index \in CallerIndices :
       ( /\ NavigationCall
         /\ \/ (openNextFile \/ openPrevFile) /\ Len(fm.files) = 0
            \/ openFileByIndex(index) /\ (index < 0 \/ index >= Len(fm.files)) )
       => /\ handlers'[1].pc = "returned"
          /\ handlers'[1].ok = FALSE
          /\ calls' = <<>>
          /\ fm' = fm
          /\ pm' = pm
          /\ app' = app]_vars

\* C35 witness: with a file open and the cursor on the second of three
\* entries, openFileByIndex(3) has returned 'Invalid file index'
C35_Witness ==
  /\ handlers[1].pc = "returned"
  /\ handlers[1].err = "Invalid file index"
  /\ Len(fm.files) = 3
  /\ fm.currentFileIndex = 1
  /\ pm.currentFile = "a.key"

\* the commands whose handler suspends before it answers
Suspending == {"status", "listFiles", "openFile", "start", "stop", "close", "next", "prev", "bogus"}

\* a message that answers a command of this type
Answers(msg, type) ==
  \/ msg.type = "error"
  \/ type = "status" /\ msg.type = "status"
  \/ type = "listFiles" /\ msg.type = "fileList"
  \/ type = "openFile" /\ msg.type = "fileOpened"
  \/ type \in {"start", "stop", "close", "next", "prev"}
       /\ msg.type = "commandResult" /\ msg.command = type

Awaits(c, type) ==
  \E h \in Handlers :
    handlers[h].conn = c /\ handlers[h].type = type
      /\ handlers[h].pc \in BeforeResponse \cup AtResponse

Answered(c, type) == \E k \in 1..Len(sent[c]) : Answers(sent[c][k], type)

\* C36 (as claimed): under fair scheduling every command whose handler is
\* waiting is eventually answered on its connection, and every handler
\* eventually finishes.
C36_EveryCommandAnswered ==
  /\ \A c \in Conns, type \in Suspending : Awaits(c, type) ~> Answered(c, type)
  /\ \A h \in Handlers : Busy(h) ~> ~Busy(h)

\* C36 (amended): under fair scheduling every command whose handler is
\* waiting is eventually answered on its connection unless the connection has
\* left the clients map or its socket has left OPEN by then, and every
\* handler eventually finishes.
C36_AnsweredWhileOpen ==
  /\ \A c \in Conns, type \in Suspending :
       Awaits(c, type) ~> (Answered(c, type) \/ ~CanSend(c))
  /\ \A h \in Handlers : Busy(h) ~> ~Busy(h)

\* C36 witness: a next has just been answered while the handler of a start
\* that arrived after it is still waiting
C36_Witness ==
  /\ Answered(1, "next")
  /\ Awaits(1, "start")
  /\ CanSend(1)

\* C37: the step that rotates the token writes tokenChanged, and nothing
\* else, to every connection that is registered with an OPEN socket, and
\* takes the socket out of OPEN and the connection out of the clients map;
\* and a connection that is not in the clients map is written nothing in any
\* step, except the tokenChanged of the rotation that removed it: no response
\* and no status broadcast of a command in flight reaches it.
C37_TokenChangedIsLast ==
  /\ [][authToken' # authToken =>
          \A c \in Conns :
            CanSend(c) => /\ sent'[c] = <<[type |-> "tokenChanged"]>>
                          /\ readyState'[c] = "closing"
                          /\ ~clients'[c].registered]_vars
  /\ [][\A c \in Conns :
          ~clients'[c].registered =>
            \/ sent'[c] = <<>>
            \/ /\ authToken' # authToken
               /\ CanSend(c)
               /\ sent'[c] = <<[type |-> "tokenChanged"]>>]_vars

\* C37 witness: the token has just been rotated while an openFile of a
\* connection was waiting for its stat: the connection has been sent
\* tokenChanged and is closing
C37_Witness ==
  \E c \in Conns :
    /\ sent[c] = <<[type |-> "tokenChanged"]>>
    /\ readyState[c] = "closing"
    /\ ~clients[c].registered
    /\ \E h \in Handlers : handlers[h].conn = c /\ handlers[h].pc = "openStat"

\* C38 (as claimed): the handler of an openFile whose result is a failure
\* answers its issuer with fileOpened, success false, and writes nothing to
\* any other connection, neither then nor in the steps it takes afterwards.
C38_NoBroadcastAfterFailedOpen ==
  [][\A h \in Handlers :
       ( /\ handlers[h].type = "openFile"
         /\ ~handlers[h].ok
         /\ handlers[h].pc \in {"reply", "bcastPoll", "bcastSend"}
         /\ nmsgs' = nmsgs
         /\ Reply(h) \/ BcastPoll(h) \/ BcastSend(h) )
       => /\ handlers[h].pc = "reply" /\ CanSend(handlers[h].conn) =>
               sent'[handlers[h].conn] =
                 <<[type |-> "fileOpened", success |-> FALSE, filePath |-> handlers[h].path]>>
          /\ \A c \in Conns \ {handlers[h].conn} : sent'[c] = <<>>]_vars

\* C39 (as claimed): in every state of the registry the cursor is none or an
\* index of the list.
C39_CursorValid ==
  fm.currentFileIndex = -1
  \/ (fm.currentFileIndex >= 0 /\ fm.currentFileIndex < Len(fm.files))

\* C40 (as claimed): when setFolder(B) has completed, no scan is in flight and
\* no watch event is waiting, with the folders' contents as they were at the
\* start, the list is the listing of B: every path lies in B and the entries
\* are B's matching files.
C40_ListIsOfNewFolder ==
  ( /\ selection.pc = "idle"
    /\ scans = <<>>
    /\ watch.pending = <<>>
    /\ fm.currentFolder # NoFolder
    /\ fsChanges = 0 )
  => IsListingOf(fm.files, fm.currentFolder)

====
